---------------------------- MODULE Spec2Model ----------------------------
(***************************************************************************)
(* A model of llm-mux's request-routing plane:                             *)
(*   - the model family table and its resolution (internal/registry),      *)
(*   - the Gemini content coalescer (internal/translator/ir),              *)
(*   - the OAuth / device-flow management handlers                         *)
(*     (internal/api/handlers/management).                                 *)
(* Each part has its own specification over its own variables; the other   *)
(* parts' variables stay at their initial values.                          *)
(***************************************************************************)
EXTENDS Integers, Sequences, FiniteSets, TLC

VARIABLES
    \* ---- registry: one call of ResolveModelFamily
    resolveIn,      \* the arguments of the last call
    resolveOut,     \* what it returned
    \* ---- translator: one ContentCoalescer and the heap of []any backing arrays
    arrays,         \* backing arrays: array id -> cells (Len = capacity)
    callerOwned,    \* ids of the arrays allocated by the caller of Emit
    contents,       \* c.contents: sequence of [role, parts], parts a slice header
    lastRole,       \* c.lastRole
    emitted,        \* history: the <<role, part>> pairs handed to Emit, in call order
    built,          \* [done, list]: whether Build was called since the last Emit, and its result
    \* ---- management: the OAuth handlers, the flow registry and the polling tasks
    registry,       \* oauthService.Registry(): state id -> status ("absent": no entry)
    flowKind,       \* state id -> provider the flow was started for ("none": unused id)
    task,           \* state id -> the flow's polling goroutine
    ctx,            \* state id -> the device flow's timeout context
    dev,            \* state id -> [expiresIn, interval] of the device code, in minutes
    saved,          \* state id -> Auth records the flow's task wrote under authDir
    forwarders,     \* providers a callback forwarder was started for
    response,       \* the last HTTP response of a management handler
    lastCall,       \* history: the last handler call and what it changed
    cancelSeen,     \* history: state ids cancelled by OAuthCancel while their task was polling
    elapsed,        \* state id -> minutes the polling task has been running
    \* ---- single calls of the library functions
    reverse,        \* registry: the last call of GetCanonicalModelID and its result
    modelInfos,     \* registry.GetGlobalRegistry(): model name -> its ModelInfo
    quirk,          \* executor: the last call of a model_quirks function and its result
    \* ---- examples/custom-provider: MyExecutor
    exec,           \* the last call of Execute, the client it built and what it returned
    count,          \* the last call of CountTokens and what it returned
    upstream,       \* HTTP requests sent to the upstream service
    streams,        \* stream id -> the channel of an ExecuteStream call, its goroutine and its reader
    \* ---- translator/ir: the process-wide memory pools
    objs,           \* object id -> [kind, cap, len, lastRole] of the object in that memory ("none": free)
    pooled,         \* pool -> ids of the objects the pool holds
    held,           \* task -> ids of the objects the task holds
    \* ---- management: the Auth records the device flows save
    saves,          \* history: [who, rec] of every record saved, who being the account that logged in
    millis,         \* time.Now().UnixMilli()
    \* ---- management: the registry by the state ids of the device flows
    entries,        \* the registry: [state, flow] for every state it holds
    flows,          \* [n, kind, state] of the device flows started and not yet collected
    issued,         \* what the starts so far were given: device codes, start numbers
    nanos,          \* time.Now().UnixNano()
    \* ---- translator/ir: the SSE chunk builders
    sse             \* the buffers in sseChunkPool, byte by byte, and the last Build* call

familyVars  == <<resolveIn, resolveOut>>
coalescerVars == <<arrays, callerOwned, contents, lastRole, emitted, built>>
oauthVars     == <<registry, flowKind, task, ctx, dev, saved, forwarders, response,
                   lastCall, cancelSeen, elapsed>>
reverseVars   == <<reverse>>
quirksVars    == <<modelInfos, quirk>>
executorVars  == <<exec, count, upstream, streams>>
poolVars      == <<objs, pooled, held>>
recordVars    == <<saves, millis>>
stateIdVars   == <<entries, flows, issued, nanos>>
sseVars       == <<sse>>
libraryVars   == <<reverseVars, quirksVars, executorVars, poolVars, recordVars, stateIdVars,
                   sseVars>>
vars == <<resolveIn, resolveOut, arrays, callerOwned, contents, lastRole, emitted, built,
          registry, flowKind, task, ctx, dev, saved, forwarders, response,
          lastCall, cancelSeen, elapsed, reverse, modelInfos, quirk,
          exec, count, upstream, streams, objs, pooled, held,
          saves, millis, entries, flows, issued, nanos, sse>>

(***************************************************************************)
(* Bounds of the model.                                                    *)
(***************************************************************************)
MaxProviders == 2      \* longest availableProviders list enumerated
MaxEmits == 3          \* Emit calls on one coalescer
MaxParts == 2          \* parts of one emitted message, and capacity of a caller's buffer
MaxFlows == 1          \* OAuth flows started (state ids 1..MaxFlows)
MaxClock == 12         \* minutes the clock of the timed specification runs
MaxModels == 2         \* models registered with the global model registry
MaxSuffixes == 1       \* "-thinking" suffixes of a model name handed to model_quirks
MaxRequests == 2       \* upstream requests of the example executor
MaxStreams == 1        \* ExecuteStream calls (stream ids 1..MaxStreams)
MaxObjects == 3        \* pooled objects alive at the same time
MaxLive == 2           \* objects alive at the same time while one task runs alone
MaxJSONLen == 600      \* bytes of the longest JSON document handed to the SSE builders
MaxSSEPooled == 1      \* buffers in sseChunkPool in the specification of the SSE builders
MaxMillis == 2         \* milliseconds the clock of the record specification runs
MaxStarts == 3         \* device flows started in the state-id specification
MaxNanos == 1          \* nanoseconds the clock of the state-id specification runs

Range(s) == {s[i] : i \in DOMAIN s}

RECURSIVE Reverse(_)
Reverse(s) == IF s = <<>> THEN <<>> ELSE Append(Reverse(Tail(s)), Head(s))

SeqsUpTo(S, n) == UNION {[1..k -> S] : k \in 0..n}

(***************************************************************************)
(*                        internal/registry                                *)
(***************************************************************************)
\* A table in which the claude member of the thinking Sonnet family carries
\* the model id of the plain Sonnet family.
FamilyMemberSharedID(p, m) ==
    [Provider |-> p,
     ModelID |-> IF m = "claude-sonnet-4-5-thinking" THEN "claude-sonnet-4-5" ELSE m]

FamilyMember(p, m) == [Provider |-> p, ModelID |-> m]

\* A Gemini family that has lost its aistudio member.
GeminiFamilyWithoutAIStudio(id) ==
    << FamilyMember("gemini-cli", id), FamilyMember("antigravity", id),
       FamilyMember("gemini", id) >>

GeminiFamily(id) ==
    << FamilyMember("gemini-cli", id), FamilyMember("antigravity", id),
       FamilyMember("aistudio", id),   FamilyMember("gemini", id) >>

ModelFamilies ==
    [ k \in { "claude-sonnet-4-5", "claude-sonnet-4-5-thinking", "claude-opus-4-5",
              "claude-opus-4-5-thinking", "claude-sonnet-4", "claude-3-7-sonnet",
              "gemini-2.5-pro", "gemini-2.5-flash", "gemini-2.5-flash-lite",
              "gemini-3-pro-preview", "gpt-5.1-codex-max" } |->
      CASE k = "claude-sonnet-4-5" ->
             << FamilyMember("kiro", "claude-sonnet-4-5"),
                FamilyMember("antigravity", "gemini-claude-sonnet-4-5"),
                FamilyMember("claude", "claude-sonnet-4-5-20250929") >>
        [] k = "claude-sonnet-4-5-thinking" ->
             << FamilyMember("antigravity", "gemini-claude-sonnet-4-5-thinking"),
                FamilyMember("claude", "claude-sonnet-4-5-thinking") >>
        [] k = "claude-opus-4-5" ->
             << FamilyMember("kiro", "claude-opus-4-5-20251101"),
                FamilyMember("claude", "claude-opus-4-5-20251101") >>
        [] k = "claude-opus-4-5-thinking" ->
             << FamilyMember("antigravity", "gemini-claude-opus-4-5-thinking"),
                FamilyMember("claude", "claude-opus-4-5-thinking") >>
        [] k = "claude-sonnet-4" ->
             << FamilyMember("kiro", "claude-sonnet-4-20250514"),
                FamilyMember("claude", "claude-sonnet-4-20250514") >>
        [] k = "claude-3-7-sonnet" ->
             << FamilyMember("kiro", "claude-3-7-sonnet-20250219"),
                FamilyMember("claude", "claude-3-7-sonnet-20250219") >>
        [] k = "gpt-5.1-codex-max" ->
             << FamilyMember("github-copilot", "gpt-5.1-codex-max"),
                FamilyMember("openai", "gpt-5.1-codex-max") >>
        [] OTHER -> GeminiFamily(k) ]

\* The provider types a caller may report as available: every provider of the
\* table, and one ("qwen") that no family names.
ProviderNames ==
    { "kiro", "antigravity", "claude", "gemini-cli", "aistudio", "gemini",
      "github-copilot", "openai", "qwen" }

ResolveResult(p, m, f) == [provider |-> p, modelID |-> m, found |-> f]

\* availableSet := make(map[string]bool); for _, p := range availableProviders { availableSet[p] = true }
RECURSIVE MakeAvailableSet(_, _)
MakeAvailableSet(availableProviders, availableSet) ==
    IF availableProviders = <<>> THEN availableSet
    ELSE MakeAvailableSet(Tail(availableProviders),
                          availableSet \cup {Head(availableProviders)})

\* A scan that keeps the last available member instead of returning at the first.
RECURSIVE LastAvailable(_, _, _)
LastAvailable(family, availableSet, canonicalID) ==
    IF family = <<>> THEN ResolveResult("", canonicalID, FALSE)
    ELSE LET rest == LastAvailable(Tail(family), availableSet, canonicalID)
         IN  IF rest.found THEN rest
             ELSE IF Head(family).Provider \in availableSet
                  THEN ResolveResult(Head(family).Provider, Head(family).ModelID, TRUE)
                  ELSE rest

\* for _, member := range family { if availableSet[member.Provider] { return ... } }
\* return "", canonicalID, false
RECURSIVE FirstAvailable(_, _, _)
FirstAvailable(family, availableSet, canonicalID) ==
    IF family = <<>> THEN ResolveResult("", canonicalID, FALSE)
    ELSE IF Head(family).Provider \in availableSet
         THEN ResolveResult(Head(family).Provider, Head(family).ModelID, TRUE)
         ELSE FirstAvailable(Tail(family), availableSet, canonicalID)

\* A resolver that does not echo the requested id when nothing matches.
ResolveModelFamilyNoEcho(canonicalID, availableProviders) ==
    IF canonicalID \notin DOMAIN ModelFamilies
    THEN ResolveResult("", "", FALSE)
    ELSE LET r == FirstAvailable(ModelFamilies[canonicalID],
                                 MakeAvailableSet(availableProviders, {}), canonicalID)
         IN  IF r.found THEN r ELSE ResolveResult("", ModelFamilies[canonicalID][1].ModelID, FALSE)

ResolveModelFamily(canonicalID, availableProviders) ==
    IF canonicalID \notin DOMAIN ModelFamilies
    THEN ResolveResult("", canonicalID, FALSE)
    ELSE FirstAvailable(ModelFamilies[canonicalID],
                        MakeAvailableSet(availableProviders, {}), canonicalID)

NoCall == [called |-> FALSE]

FamiliesInit ==
    /\ resolveIn = NoCall
    /\ resolveOut = NoCall

\* One call ResolveModelFamily(canonicalID, availableProviders) by a request handler.
CallResolveModelFamily ==
    /\ ~resolveIn.called
    \* the ids a caller may ask for: every family key, a provider-specific id
    \* that is no key, an unknown id and the empty id
    /\ \E canonicalID \in DOMAIN ModelFamilies
                              \cup { "gemini-claude-sonnet-4-5", "gpt-4o", "" },
          availableProviders \in SeqsUpTo(ProviderNames, MaxProviders) :
           /\ resolveIn' = [called |-> TRUE, canonicalID |-> canonicalID,
                            availableProviders |-> availableProviders]
           /\ resolveOut' = ResolveModelFamily(canonicalID, availableProviders)

\* The handler is done with the result; the next request may resolve again.
FinishRequest ==
    /\ resolveIn.called
    /\ resolveIn' = NoCall
    /\ resolveOut' = NoCall

\* ---- GetCanonicalModelID
\* The keys of ModelFamilies as the table declares them.
FamilyKeys ==
    << "claude-sonnet-4-5", "claude-sonnet-4-5-thinking", "claude-opus-4-5",
       "claude-opus-4-5-thinking", "claude-sonnet-4", "claude-3-7-sonnet",
       "gemini-2.5-pro", "gemini-2.5-flash", "gemini-2.5-flash-lite",
       "gemini-3-pro-preview", "gpt-5.1-codex-max" >>

Rotate(seq, n) ==
    [i \in DOMAIN seq |-> seq[((i - 1 + n) % Len(seq)) + 1]]

\* for canonical, members := range ModelFamilies: the language leaves the order
\* of a map's iteration open; every key can come first.
IterationOrders == {Rotate(FamilyKeys, n) : n \in 0..(Len(FamilyKeys) - 1)}

\* for _, member := range members { if member.ModelID == providerModelID ... }
HasModelID(members, providerModelID) ==
    \E i \in DOMAIN members : members[i].ModelID = providerModelID

\* A reverse lookup that answers with the id itself when it is a family key.
RECURSIVE GetCanonicalModelIDByKey(_, _)
GetCanonicalModelIDByKey(order, providerModelID) ==
    IF order = <<>> THEN ""
    ELSE IF Head(order) = providerModelID THEN Head(order)
    ELSE GetCanonicalModelIDByKey(Tail(order), providerModelID)

\* GetCanonicalModelID, the map iterated in the given order.
RECURSIVE GetCanonicalModelID(_, _)
GetCanonicalModelID(order, providerModelID) ==
    IF order = <<>> THEN ""
    ELSE IF HasModelID(ModelFamilies[Head(order)], providerModelID) THEN Head(order)
    ELSE GetCanonicalModelID(Tail(order), providerModelID)

\* The ids a caller may look up: every member's model id, every family key, an
\* unknown id and the empty id.
LookupIDs ==
    UNION { {ModelFamilies[k][i].ModelID : i \in DOMAIN ModelFamilies[k]} :
            k \in DOMAIN ModelFamilies }
        \cup DOMAIN ModelFamilies \cup { "gpt-4o", "" }

ReverseInit == reverse = NoCall

\* One call GetCanonicalModelID(providerModelID), for usage reporting.
CallGetCanonicalModelID ==
    /\ ~reverse.called
    /\ \E providerModelID \in LookupIDs, order \in IterationOrders :
          reverse' = [called |-> TRUE, providerModelID |-> providerModelID,
                      order |-> order,
                      canonical |-> GetCanonicalModelID(order, providerModelID)]

\* The caller is done with the result.
FinishLookup ==
    /\ reverse.called
    /\ reverse' = NoCall

(***************************************************************************)
(*                       internal/translator/ir                            *)
(* A []any value is a slice header [arr, off, len] over a backing array of *)
(* the heap `arrays`; its capacity is what is left of the array after off. *)
(* Parts are numbered 1, 2, ... in the order the caller creates them; a    *)
(* cell that was never written holds Nil.                                  *)
(***************************************************************************)
Nil == 0
NotBuilt == [done |-> FALSE, list |-> <<>>]
Roles == {"", "user", "model"}

Slice(a, o, n) == [arr |-> a, off |-> o, len |-> n]
CapOf(A, s) == IF s.arr = 0 THEN 0 ELSE Len(A[s.arr]) - s.off
Elems(A, s) == [i \in 1..s.len |-> A[s.arr][s.off + i]]

\* The capacity Go's append allocates when cap(s) is too small for `needed`
\* elements (small slices: double, or what is needed if that is more).
GrowCap(oldCap, needed) == IF needed > 2 * oldCap THEN needed ELSE 2 * oldCap

\* append(s, t...): in place when the elements fit cap(s), else into a new array.
\* Returns the heap and the resulting slice header.
AppendSlice(A, s, t) ==
    LET src    == Elems(A, t)
        needed == s.len + t.len
    IN  IF needed <= CapOf(A, s)
        THEN [arrays |-> [A EXCEPT ![s.arr] =
                            [k \in DOMAIN @ |->
                                IF k > s.off + s.len /\ k <= s.off + needed
                                THEN src[k - s.off - s.len] ELSE @[k]]],
              slice  |-> Slice(s.arr, s.off, needed)]
        ELSE LET newCap == GrowCap(CapOf(A, s), needed)
                 old    == Elems(A, s)
                 cells  == [k \in 1..newCap |->
                              IF k <= s.len THEN old[k]
                              ELSE IF k <= needed THEN src[k - s.len] ELSE Nil]
             IN  [arrays |-> Append(A, cells),
                  slice  |-> Slice(Len(A) + 1, 0, needed)]

geminiContent(role, parts) == [role |-> role, parts |-> parts]

\* An Emit that treats a message without parts like any other.
EmitKeepsEmpty(A, c, role, parts) ==
    IF role = c.lastRole /\ Len(c.contents) > 0
    THEN LET app == AppendSlice(A, c.contents[Len(c.contents)].parts, parts)
         IN  [arrays   |-> app.arrays,
              contents |-> [c.contents EXCEPT ![Len(c.contents)].parts = app.slice],
              lastRole |-> c.lastRole]
    ELSE [arrays   |-> A,
          contents |-> Append(c.contents, geminiContent(role, parts)),
          lastRole |-> role]

\* An Emit that starts a new content without recording its role as the last one.
EmitKeepsLastRole(A, c, role, parts) ==
    IF parts.len = 0 THEN [arrays |-> A, contents |-> c.contents, lastRole |-> c.lastRole]
    ELSE IF role = c.lastRole /\ Len(c.contents) > 0
    THEN LET app == AppendSlice(A, c.contents[Len(c.contents)].parts, parts)
         IN  [arrays   |-> app.arrays,
              contents |-> [c.contents EXCEPT ![Len(c.contents)].parts = app.slice],
              lastRole |-> c.lastRole]
    ELSE [arrays   |-> A,
          contents |-> Append(c.contents, geminiContent(role, parts)),
          lastRole |-> c.lastRole]

\* func (c *ContentCoalescer) Emit(role string, parts []any), on the coalescer
\* c = [contents, lastRole] and the heap A; returns the heap and the coalescer after.
Emit(A, c, role, parts) ==
    IF parts.len = 0 THEN [arrays |-> A, contents |-> c.contents, lastRole |-> c.lastRole]
    ELSE IF role = c.lastRole /\ Len(c.contents) > 0
    THEN LET app == AppendSlice(A, c.contents[Len(c.contents)].parts, parts)
         IN  [arrays   |-> app.arrays,
              contents |-> [c.contents EXCEPT ![Len(c.contents)].parts = app.slice],
              lastRole |-> c.lastRole]
    ELSE [arrays   |-> A,
          contents |-> Append(c.contents, geminiContent(role, parts)),
          lastRole |-> role]

\* func (c *ContentCoalescer) Build() []any: one {"role", "parts"} map per content
\* (nil, here <<>>, when there is none); parts are read through the slice headers.
Build(A, c) ==
    IF Len(c.contents) = 0 THEN <<>>
    ELSE [i \in 1..Len(c.contents) |->
            [role |-> c.contents[i].role, parts |-> Elems(A, c.contents[i].parts)]]

Coalescer == [contents |-> contents, lastRole |-> lastRole]

MaxOf(S) == IF S = {} THEN 0 ELSE CHOOSE m \in S : \A x \in S : x <= m

CoalescerInit ==
    /\ arrays = <<>>
    /\ callerOwned = {}
    /\ contents = <<>>
    /\ lastRole = ""
    /\ emitted = <<>>
    /\ built = NotBuilt

\* What every Emit call does to the state, given the heap A the caller prepared
\* and the slice it passes.
DoEmit(A, role, parts) ==
    LET r == Emit(A, Coalescer, role, parts)
    IN  /\ arrays' = r.arrays
        /\ contents' = r.contents
        /\ lastRole' = r.lastRole
        /\ emitted' = Append(emitted, [role |-> role, parts |-> Elems(A, parts)])
        /\ built' = NotBuilt

\* The caller builds a message's n parts in a buffer of its own, either a literal
\* of exactly n cells or a buffer made with room for MaxParts, and emits it.
EmitFreshParts ==
    /\ Len(emitted) < MaxEmits
    /\ \E role \in Roles, n \in 0..MaxParts :
        IF n = 0
        THEN /\ DoEmit(arrays, role, Slice(0, 0, 0))
             /\ UNCHANGED callerOwned
        ELSE \E bufCap \in {n, MaxParts} :
             \* the parts the caller has created so far, and one
             LET first == MaxOf(UNION {Range(emitted[i].parts) : i \in DOMAIN emitted}) + 1
                 buf   == [k \in 1..bufCap |-> IF k <= n THEN first + k - 1 ELSE Nil]
                 A     == Append(arrays, buf)
             IN  /\ DoEmit(A, role, Slice(Len(A), 0, n))
                 /\ callerOwned' = callerOwned \cup {Len(A)}

\* The caller emits again from a buffer it passed before: the first n cells of it.
EmitReusedBuffer ==
    /\ Len(emitted) < MaxEmits
    /\ \E role \in Roles, a \in callerOwned :
        \E n \in 1..Len(arrays[a]) :
            /\ \A k \in 1..n : arrays[a][k] # Nil
            /\ DoEmit(arrays, role, Slice(a, 0, n))
            /\ UNCHANGED callerOwned

\* The caller asks for the result.
CallBuild ==
    /\ ~built.done
    /\ built' = [done |-> TRUE, list |-> Build(arrays, Coalescer)]
    /\ UNCHANGED <<arrays, callerOwned, contents, lastRole, emitted>>

(***************************************************************************)
(*                  internal/api/handlers/management                       *)
(* A flow is known by its state id, a number of 1..MaxFlows handed out in  *)
(* the order the flows are started; state id 0 stands for an empty :state  *)
(* parameter.  The registry of package oauth is modelled by what the       *)
(* specification says of it: Create registers a pending flow, a terminal   *)
(* status is sticky, pending flows expire and terminal ones are collected. *)
(***************************************************************************)
FlowIds == 1..MaxFlows
Terminal == {"completed", "failed", "cancelled", "expired"}

\* const deviceFlowTimeout = 10 * time.Minute
DeviceFlowTimeout == 10

\* ---- package oauth (registry.go, service.go)
RegistryCreate(reg, state) == [reg EXCEPT ![state] = "pending"]

\* Registry.Complete / Fail / Cancel: a pending flow takes the status, any other
\* entry (terminal, or none) is left as it is.
RegistryMark(reg, state, status) ==
    IF reg[state] = "pending" THEN [reg EXCEPT ![state] = status] ELSE reg

\* Service.Cancel: an error for an unknown state, else the flow is cancelled if it
\* was pending and untouched if it was terminal.
ServiceCancel(reg, state) ==
    IF state \notin DOMAIN reg \/ reg[state] = "absent"
    THEN [err |-> TRUE, registry |-> reg]
    ELSE [err |-> FALSE, registry |-> RegistryMark(reg, state, "cancelled")]

\* Service.GetStatus: an error for an unknown state, else the flow's status.
ServiceGetStatus(reg, state) ==
    IF state \notin DOMAIN reg \/ reg[state] = "absent"
    THEN [err |-> TRUE, status |-> ""]
    ELSE [err |-> FALSE, status |-> reg[state]]

\* ---- the HTTP responses of the handlers
\* A start response carries the state twice (State: state, ID: state).
Response(op, code, status, error, state, flowType) ==
    [op |-> op, code |-> code, status |-> status, error |-> error,
     state |-> state, id |-> IF op = "start" THEN state ELSE 0,
     flowType |-> flowType]
NoResponse == Response("none", 0, "", "", 0, "")

ErrInvalidBody == "Invalid request body: provider is required"
ErrIFlow == "iFlow uses cookie-based auth. Use POST /v0/management/iflow-auth-url with {cookie: \"...\"} instead"
ErrUnsupported == "unsupported OAuth provider. Use device flow for qwen/copilot, or cookie auth for iflow"
ErrGenerateState == "failed to generate state"
ErrPKCE == "failed to generate PKCE codes / auth URL"
ErrStateRequired == "state parameter is required"
ErrStatusNotFound == "OAuth state not found or expired"
ErrCancelNotFound == "OAuth state not found or already completed"

\* The provider field of a start request; "" is a body that does not bind.
StartRequests ==
    { "", "claude", "anthropic", "gemini", "gemini-cli",
      "qwen", "copilot", "github-copilot", "iflow", "kiro" }

\* switch provider { case "claude", "anthropic": ...; case "gemini", "gemini-cli": ...; ... }
NormalizeProvider(provider) ==
    CASE provider \in {"claude", "anthropic"} -> "claude"
      [] provider \in {"gemini", "gemini-cli"} -> "gemini"
      [] provider \in {"copilot", "github-copilot"} -> "copilot"
      [] OTHER -> provider

\* A dispatch that has no case for "iflow".
StartDispatchNoIFlow(provider) ==
    IF provider = "" THEN "bad-request"
    ELSE LET p == NormalizeProvider(provider)
         IN  IF p \in {"qwen", "copilot"} THEN p ELSE "oauth"

\* OAuthStart up to its dispatch: the body must bind, then the device-flow
\* providers and iflow are taken out; everything else builds an auth URL.
StartDispatch(provider) ==
    IF provider = "" THEN "bad-request"
    ELSE LET p == NormalizeProvider(provider)
         IN  IF p \in {"qwen", "copilot", "iflow"} THEN p ELSE "oauth"

\* A builder that has a URL for every provider name.
BuildProviderAuthURLAnyProvider(provider, fault) ==
    IF fault = "state" THEN ErrGenerateState
    ELSE IF provider \in {"claude", "anthropic", "codex"} /\ fault = "pkce"
    THEN ErrPKCE
    ELSE ""

\* buildProviderAuthURL: "" when the URL was built, else the error.
BuildProviderAuthURL(provider, fault) ==
    IF fault = "state" THEN ErrGenerateState
    ELSE CASE provider \in {"claude", "anthropic", "codex"} ->
                IF fault = "pkce" THEN ErrPKCE ELSE ""
           [] provider \in {"gemini", "gemini-cli", "antigravity"} -> ""
           [] OTHER -> ErrUnsupported

\* ---- the polling tasks
\* pc is where the goroutine stands; the other fields are history: what its
\* calls returned, whether an error came with ctx done, the status the task
\* found its flow in when it left, and the registry calls it made.
IdleTask ==
    [pc |-> "none", poll |-> "none", verify |-> "none", save |-> "none",
     ctxAtError |-> FALSE, found |-> "", calls |-> <<>>]
Running == {"polling", "verifying", "saving"}

MarkStatus(call) ==
    CASE call = "Complete" -> "completed"
      [] call = "Fail" -> "failed"
      [] call = "Cancel" -> "cancelled"

\* After PollForToken / WaitForAuthorization: go on with the token, or leave.
\*   if err != nil { if ctx.Err() != nil { Cancel; return }; Fail; return }
PollExit(pollOk, ctxDone) ==
    IF pollOk THEN "continue" ELSE IF ctxDone THEN "Cancel" ELSE "Fail"

\* A task that goes on to save whatever GetCopilotAPIToken returned.
VerifyExitIgnoresError(verifyOk) == "continue"

\* After GetCopilotAPIToken: if err != nil { Fail; return }
VerifyExit(verifyOk) == IF verifyOk THEN "continue" ELSE "Fail"

\* A task that reports success whatever saveTokenRecord returned.
SaveExitAlwaysComplete(saveOk) == "Complete"

\* A task that returns on a save error without telling the registry.
SaveExitSilentOnError(saveOk) == IF saveOk THEN "Complete" ELSE "return"

\* After saveTokenRecord: if errSave != nil { Fail; return }; Complete
SaveExit(saveOk) == IF saveOk THEN "Complete" ELSE "Fail"

NoHandlerCall ==
    [op |-> "none", provider |-> "", state |-> 0, before |-> "", after |-> "",
     changed |-> FALSE, steps |-> <<>>]

OAuthInit ==
    /\ registry = [f \in FlowIds |-> "absent"]
    /\ flowKind = [f \in FlowIds |-> "none"]
    /\ task = [f \in FlowIds |-> IdleTask]
    /\ ctx = [f \in FlowIds |-> "none"]
    /\ dev = [f \in FlowIds |-> [expiresIn |-> 0, interval |-> 0]]
    /\ saved = [f \in FlowIds |-> 0]
    /\ forwarders = {}
    /\ response = NoResponse
    /\ lastCall = NoHandlerCall
    /\ cancelSeen = {}
    /\ elapsed = [f \in FlowIds |-> 0]

\* Everything a request or a task can leave behind.
Effects == <<registry, flowKind, task, ctx, dev, saved, forwarders>>

\* The next state id: a flow that has never been started.
FreshFlows == {f \in FlowIds : flowKind[f] = "none"}
NextFlow == CHOOSE f \in FreshFlows : \A g \in FreshFlows : f <= g

\* A handler runs to its end before anything else is looked at: the state in
\* which a response stands is the state the handler left.
NoRequest == response = NoResponse

\* The handler has returned and its response is with the client.
ResponseSent ==
    /\ response # NoResponse
    /\ response' = NoResponse
    /\ lastCall' = NoHandlerCall
    /\ UNCHANGED <<registry, flowKind, task, ctx, dev, saved, forwarders,
                   cancelSeen, elapsed>>

\* What a handler did on the way to its response r, in program order: a start
\* that succeeds registers the flow, then spawns the polling task or starts
\* the callback forwarder, then writes the response.  A device-flow start
\* first makes the timeout context, and cancels it itself when the upstream
\* refuses the device code (the only 500 of the handlers).
HandlerSteps(r) ==
    IF r.op = "start" /\ r.code = 200
    THEN IF r.flowType = "device"
         THEN <<"WithTimeout", "Create", "go", "respond">>
         ELSE <<"Create", "forward", "respond">>
    ELSE IF r.op = "start" /\ r.code = 500
    THEN <<"WithTimeout", "cancel", "respond">>
    ELSE <<"respond">>

\* provider: the provider of a start request, normalized.
Respond(r, provider, state, before) ==
    /\ response' = r
    /\ lastCall' = [op |-> r.op, provider |-> provider, state |-> state,
                    before |-> before,
                    after |-> IF state \in FlowIds THEN registry'[state] ELSE "",
                    changed |-> Effects' # Effects,
                    steps |-> HandlerSteps(r)]

\* A device-flow start that spawns the task without registering the flow.
StartDeviceFlowUnregistered(f, kind, expiresIn, interval) ==
    /\ flowKind' = [flowKind EXCEPT ![f] = kind]
    /\ task' = [task EXCEPT ![f] = [IdleTask EXCEPT !.pc = "polling"]]
    /\ ctx' = [ctx EXCEPT ![f] = "live"]
    /\ dev' = [dev EXCEPT ![f] = [expiresIn |-> expiresIn, interval |-> interval]]
    /\ UNCHANGED <<registry, saved, forwarders>>

\* startQwenDeviceFlow / startCopilotDeviceFlow after InitiateDeviceFlow /
\* RequestDeviceCode succeeded: register the flow, start the polling task.
StartDeviceFlow(f, kind, expiresIn, interval) ==
    /\ registry' = RegistryCreate(registry, f)
    /\ flowKind' = [flowKind EXCEPT ![f] = kind]
    /\ task' = [task EXCEPT ![f] = [IdleTask EXCEPT !.pc = "polling"]]
    /\ ctx' = [ctx EXCEPT ![f] = "live"]
    /\ dev' = [dev EXCEPT ![f] = [expiresIn |-> expiresIn, interval |-> interval]]
    /\ UNCHANGED <<saved, forwarders>>

\* OAuthStart after buildProviderAuthURL succeeded: register the flow and start
\* the callback forwarder if the provider has a callback port.
StartWebFlow(f, provider, forward) ==
    /\ registry' = RegistryCreate(registry, f)
    /\ flowKind' = [flowKind EXCEPT ![f] = provider]
    /\ forwarders' = IF forward THEN forwarders \cup {provider} ELSE forwarders
    /\ UNCHANGED <<task, ctx, dev, saved>>

\* POST /oauth/start
OAuthStart ==
    /\ NoRequest
    /\ \E provider \in StartRequests :
        LET d == StartDispatch(provider)
            p == NormalizeProvider(provider)
            Reject(code, error) ==
                /\ UNCHANGED Effects
                /\ Respond(Response("start", code, "error", error, 0, ""), p, 0, "")
            Accept(flowType) ==
                Respond(Response("start", 200, "ok", "", NextFlow, flowType),
                        p, NextFlow, "absent")
        IN  /\ CASE d = "bad-request" -> Reject(400, ErrInvalidBody)
              [] d = "iflow" -> Reject(400, ErrIFlow)
              [] d \in {"qwen", "copilot"} ->
                    \/ Reject(500, "Failed to initiate device flow")
                    \/ /\ FreshFlows # {}
                       \* ExpiresIn and Interval of the device-code response, in minutes
                       /\ \E expiresIn \in {5, 15}, interval \in {1} :
                            StartDeviceFlow(NextFlow, d, expiresIn, interval)
                       /\ Accept("device")
              [] OTHER ->
                    \E fault \in {"none", "state", "pkce"} :
                        LET urlErr == BuildProviderAuthURL(p, fault)
                        IN  IF urlErr # ""
                            THEN Reject(400, urlErr)
                            ELSE /\ FreshFlows # {}
                                 /\ \E forward \in BOOLEAN :
                                        StartWebFlow(NextFlow, p, forward)
                                 /\ Accept("oauth")
            /\ UNCHANGED <<cancelSeen, elapsed>>

\* A status handler that does not look at the error of GetStatus.
OAuthStatusHandlerIgnoresError(reg, state) ==
    IF state = 0
    THEN Response("status", 400, "error", ErrStateRequired, state, "")
    ELSE Response("status", 200, ServiceGetStatus(reg, state).status, "", state, "")

\* GET /oauth/status/:state
OAuthStatusHandler(reg, state) ==
    IF state = 0
    THEN Response("status", 400, "error", ErrStateRequired, state, "")
    ELSE LET r == ServiceGetStatus(reg, state)
         IN  IF r.err
             THEN Response("status", 404, "error", ErrStatusNotFound, state, "")
             ELSE Response("status", 200, r.status, "", state, "")

OAuthStatus ==
    /\ NoRequest
    /\ \E state \in 0..MaxFlows :
        /\ UNCHANGED Effects
        /\ Respond(OAuthStatusHandler(registry, state), "", state,
                   IF state \in FlowIds THEN registry[state] ELSE "")
        /\ UNCHANGED <<cancelSeen, elapsed>>

\* A cancel handler that turns away every flow that is not pending.
OAuthCancelRejectsTerminal(reg, state) ==
    IF state = 0
    THEN [registry |-> reg,
          response |-> Response("cancel", 400, "error", ErrStateRequired, state, "")]
    ELSE IF reg[state] # "pending"
    THEN [registry |-> reg,
          response |-> Response("cancel", 404, "error", ErrCancelNotFound, state, "")]
    ELSE [registry |-> ServiceCancel(reg, state).registry,
          response |-> Response("cancel", 200, "ok", "", state, "")]

\* POST /oauth/cancel/:state
OAuthCancelHandler(reg, state) ==
    IF state = 0
    THEN [registry |-> reg,
          response |-> Response("cancel", 400, "error", ErrStateRequired, state, "")]
    ELSE LET r == ServiceCancel(reg, state)
         IN  IF r.err
             THEN [registry |-> reg,
                   response |-> Response("cancel", 404, "error", ErrCancelNotFound,
                                         state, "")]
             ELSE [registry |-> r.registry,
                   response |-> Response("cancel", 200, "ok", "", state, "")]

OAuthCancel ==
    /\ NoRequest
    /\ \E state \in 0..MaxFlows :
        LET h == OAuthCancelHandler(registry, state)
        IN  /\ registry' = h.registry
            /\ UNCHANGED <<flowKind, task, ctx, dev, saved, forwarders>>
            /\ Respond(h.response, "", state,
                       IF state \in FlowIds THEN registry[state] ELSE "")
            /\ cancelSeen' =
                   IF /\ state \in FlowIds
                      /\ h.response.code = 200
                      /\ registry[state] = "pending"
                      /\ task[state].pc = "polling"
                   THEN cancelSeen \cup {state}
                   ELSE cancelSeen
            /\ UNCHANGED elapsed

\* A polling task whose cancel() is not deferred but called on the way to
\* Complete only.
TaskExitReleasesOnSuccess(f, t, call) ==
    /\ task' = [task EXCEPT ![f] =
                   [t EXCEPT !.pc = "done",
                             !.found = registry[f],
                             !.calls = IF call = "return" THEN @ ELSE Append(@, call)]]
    /\ registry' = IF call = "return" THEN registry
                   ELSE RegistryMark(registry, f, MarkStatus(call))
    /\ ctx' = IF call = "Complete" THEN [ctx EXCEPT ![f] = "released"] ELSE ctx
    /\ elapsed' = [elapsed EXCEPT ![f] = 0]

\* A polling task leaves: it has told the registry (or, for "return", nobody),
\* and its deferred cancel() releases the context.
TaskExit(f, t, call) ==
    /\ task' = [task EXCEPT ![f] =
                   [t EXCEPT !.pc = "done",
                             !.found = registry[f],
                             !.calls = IF call = "return" THEN @ ELSE Append(@, call)]]
    /\ registry' = IF call = "return" THEN registry
                   ELSE RegistryMark(registry, f, MarkStatus(call))
    /\ ctx' = [ctx EXCEPT ![f] = "released"]
    /\ elapsed' = [elapsed EXCEPT ![f] = 0]

TaskContinue(f, t, pc) ==
    /\ task' = [task EXCEPT ![f] = [t EXCEPT !.pc = pc]]
    /\ UNCHANGED <<registry, ctx, elapsed>>

\* pollQwenToken: PollForToken(deviceCode, codeVerifier) returns;
\* pollCopilotToken: WaitForAuthorization(ctx, deviceCode) returns, with an
\* error once ctx is done.
PollReturns(f) ==
    /\ NoRequest
    /\ task[f].pc = "polling"
    /\ \E pollOk \in BOOLEAN :
        /\ pollOk => elapsed[f] < dev[f].expiresIn
        /\ pollOk /\ flowKind[f] = "copilot" => ctx[f] = "live"
        /\ LET ctxDone == ctx[f] = "expired"
               t == [task[f] EXCEPT !.poll = IF pollOk THEN "token" ELSE "error",
                                    !.ctxAtError = ~pollOk /\ ctxDone]
               exit == PollExit(pollOk, ctxDone)
           IN  IF exit = "continue"
               THEN TaskContinue(f, t, IF flowKind[f] = "copilot"
                                       THEN "verifying" ELSE "saving")
               ELSE TaskExit(f, t, exit)
    /\ UNCHANGED <<flowKind, dev, saved, forwarders, response, lastCall, cancelSeen>>

\* pollCopilotToken: GetCopilotAPIToken(ctx, accessToken) returns, with an error
\* once ctx is done.
VerifyReturns(f) ==
    /\ NoRequest
    /\ task[f].pc = "verifying"
    /\ \E verifyOk \in BOOLEAN :
        /\ verifyOk => ctx[f] = "live"
        /\ LET t == [task[f] EXCEPT !.verify = IF verifyOk THEN "ok" ELSE "error",
                                    !.ctxAtError = ~verifyOk /\ ctx[f] = "expired"]
               exit == VerifyExit(verifyOk)
           IN  IF exit = "continue"
               THEN TaskContinue(f, t, "saving")
               ELSE TaskExit(f, t, exit)
    /\ UNCHANGED <<flowKind, dev, saved, forwarders, response, lastCall, cancelSeen>>

\* saveTokenRecord(ctx, record) returns: the Auth record is written, or not.
SaveReturns(f) ==
    /\ NoRequest
    /\ task[f].pc = "saving"
    /\ \E saveOk \in BOOLEAN :
        /\ saved' = [saved EXCEPT ![f] = IF saveOk THEN @ + 1 ELSE @]
        /\ LET t == [task[f] EXCEPT !.save = IF saveOk THEN "ok" ELSE "error",
                                    !.ctxAtError = ~saveOk /\ ctx[f] = "expired"]
           IN  TaskExit(f, t, SaveExit(saveOk))
    /\ UNCHANGED <<flowKind, dev, forwarders, response, lastCall, cancelSeen>>

\* context.WithTimeout(context.Background(), deviceFlowTimeout) runs out.
CtxDeadline(f) ==
    /\ NoRequest
    /\ ctx[f] = "live"
    /\ ctx' = [ctx EXCEPT ![f] = "expired"]
    /\ UNCHANGED <<registry, flowKind, task, dev, saved, forwarders, response,
                   lastCall, cancelSeen, elapsed>>

\* The registry expires a pending flow that was not advanced in time.
RegistryExpire(f) ==
    /\ NoRequest
    /\ registry[f] = "pending"
    /\ registry' = [registry EXCEPT ![f] = "expired"]
    /\ UNCHANGED <<flowKind, task, ctx, dev, saved, forwarders, response,
                   lastCall, cancelSeen, elapsed>>

\* The registry collects a flow some time after it became terminal.
RegistryGC(f) ==
    /\ NoRequest
    /\ registry[f] \in Terminal
    /\ registry' = [registry EXCEPT ![f] = "absent"]
    /\ UNCHANGED <<flowKind, task, ctx, dev, saved, forwarders, response,
                   lastCall, cancelSeen, elapsed>>

\* One minute passes for the running tasks.  The upstream refuses an expired
\* device code by the first poll after the expiry, a call bound to ctx returns
\* when ctx is done, and the local save takes no time; nothing else bounds how
\* long a call may take.
Tick ==
    /\ NoRequest
    /\ \E f \in FlowIds : task[f].pc \in Running
    /\ \A f \in FlowIds :
        /\ task[f].pc \in Running => elapsed[f] < MaxClock
        /\ ~(/\ task[f].pc = "polling"
             /\ elapsed[f] >= dev[f].expiresIn + dev[f].interval)
        /\ ~(/\ flowKind[f] = "copilot"
             /\ task[f].pc \in {"polling", "verifying"}
             /\ ctx[f] = "expired")
        /\ task[f].pc # "saving"
    /\ elapsed' = [f \in FlowIds |->
                     IF task[f].pc \in Running THEN elapsed[f] + 1 ELSE elapsed[f]]
    /\ ctx' = [f \in FlowIds |->
                 IF ctx[f] = "live" /\ elapsed'[f] >= DeviceFlowTimeout
                 THEN "expired" ELSE ctx[f]]
    /\ UNCHANGED <<registry, flowKind, task, dev, saved, forwarders, response,
                   lastCall, cancelSeen>>

(***************************************************************************)
(*                    internal/runtime/executor                            *)
(* A model name is kept as [base, thinking]: the name is `base` followed   *)
(* by `thinking` copies of "-thinking", where base does not itself end in  *)
(* "-thinking".  Every string is such a pair in exactly one way.           *)
(***************************************************************************)
ModelName(base, thinking) == [base |-> base, thinking |-> thinking]
EmptyName == ModelName("", 0)

ModelNames ==
    {ModelName(b, n) : b \in {"", "claude-sonnet-4-5", "gemini-2.5-pro"},
                       n \in 0..MaxSuffixes}

\* registry.ModelInfo, the two fields getOutputTokenLimit reads.
ModelInfo(outputTokenLimit, maxCompletionTokens) ==
    [OutputTokenLimit |-> outputTokenLimit, MaxCompletionTokens |-> maxCompletionTokens]

\* registry.GetGlobalRegistry().GetModelInfo(model): nil for a model that is not
\* registered.
GetModelInfo(infos, model) ==
    IF model \in DOMAIN infos
    THEN [nil |-> FALSE, info |-> infos[model]]
    ELSE [nil |-> TRUE, info |-> ModelInfo(0, 0)]

\* strings.HasSuffix(model, "-thinking")
hasThinkingSuffix(model) == model.thinking > 0

\* model + "-thinking"
WithThinking(model) == ModelName(model.base, model.thinking + 1)

\* A variant lookup that does not ask the registry.
getThinkingVariantUnchecked(infos, model) ==
    IF hasThinkingSuffix(model) THEN model ELSE WithThinking(model)

getThinkingVariant(infos, model) ==
    IF hasThinkingSuffix(model) THEN model
    ELSE LET thinkingModel == WithThinking(model)
         IN  IF ~GetModelInfo(infos, thinkingModel).nil THEN thinkingModel
             ELSE EmptyName

\* A limit that prefers MaxCompletionTokens.
getOutputTokenLimitSwapped(infos, model) ==
    LET r == GetModelInfo(infos, model)
    IN  IF r.nil THEN 0
        ELSE IF r.info.MaxCompletionTokens > 0 THEN r.info.MaxCompletionTokens
        ELSE r.info.OutputTokenLimit

getOutputTokenLimit(infos, model) ==
    LET r == GetModelInfo(infos, model)
    IN  IF r.nil THEN 0
        ELSE IF r.info.OutputTokenLimit > 0 THEN r.info.OutputTokenLimit
        ELSE r.info.MaxCompletionTokens

QuirksInit ==
    /\ modelInfos = << >>
    /\ quirk = NoCall

\* A provider's client registers a model with the global registry.
RegisterModel ==
    /\ ~quirk.called
    /\ Cardinality(DOMAIN modelInfos) < MaxModels
    /\ \E model \in ModelNames \ DOMAIN modelInfos,
          o \in {0, 4096}, c \in {0, 8192} :
            modelInfos' = [m \in DOMAIN modelInfos \cup {model} |->
                              IF m = model THEN ModelInfo(o, c) ELSE modelInfos[m]]
    /\ UNCHANGED quirk

CallGetThinkingVariant ==
    /\ ~quirk.called
    /\ \E model \in ModelNames :
          quirk' = [called |-> TRUE, fn |-> "getThinkingVariant", model |-> model,
                    variant |-> getThinkingVariant(modelInfos, model)]
    /\ UNCHANGED modelInfos

CallGetOutputTokenLimit ==
    /\ ~quirk.called
    /\ \E model \in ModelNames :
          quirk' = [called |-> TRUE, fn |-> "getOutputTokenLimit", model |-> model,
                    limit |-> getOutputTokenLimit(modelInfos, model)]
    /\ UNCHANGED modelInfos

\* The executor is done with the answer.
FinishQuirk ==
    /\ quirk.called
    /\ quirk' = NoCall
    /\ UNCHANGED modelInfos

(***************************************************************************)
(*                      examples/custom-provider                           *)
(* MyExecutor: Execute with the HTTP client built for the credential,      *)
(* CountTokens, and ExecuteStream with its producing goroutine.            *)
(***************************************************************************)
\* http.StatusNotImplemented
StatusNotImplemented == 501

\* The ProxyURL of a credential, as written in its file.
ProxyURLs ==
    { "", "   ", "http://proxy:8080", "https://proxy:8443", "HTTP://proxy:8080",
      "socks5://proxy:1080", "proxy:8080", "://proxy", " http://proxy:8080",
      "http://proxy:8080 ", "/var/run/proxy" }

\* a *provider.Auth: nil, or a credential with its ProxyURL.
NilAuth == [nil |-> TRUE, ProxyURL |-> ""]

\* strings.TrimSpace(s) == ""
IsBlank(s) == s \in {"", "   "}

\* url.Parse(s): the scheme is what stands before the first ":" when that is
\* letters, digits, "+", "-", "." after a letter, and is lowercased; a URL
\* without a scheme whose first path segment holds a colon, one that starts
\* with a colon, and a host with a space in its port do not parse.
ParseURL(s) ==
    CASE s \in {"http://proxy:8080", "HTTP://proxy:8080"} ->
            [err |-> FALSE, Scheme |-> "http", Host |-> "proxy:8080"]
      [] s = "https://proxy:8443" ->
            [err |-> FALSE, Scheme |-> "https", Host |-> "proxy:8443"]
      [] s = "socks5://proxy:1080" ->
            [err |-> FALSE, Scheme |-> "socks5", Host |-> "proxy:1080"]
      [] s = "proxy:8080" -> [err |-> FALSE, Scheme |-> "proxy", Host |-> ""]
      [] s \in {"", "   ", "/var/run/proxy"} ->
            [err |-> FALSE, Scheme |-> "", Host |-> ""]
      [] OTHER -> [err |-> TRUE, Scheme |-> "", Host |-> ""]

DefaultClient == [proxied |-> FALSE, proxy |-> ""]
ProxyClient(u) == [proxied |-> TRUE, proxy |-> u.Host]

\* A client builder that takes every URL that parses as a proxy.
buildHTTPClientAnyScheme(a) ==
    IF a.nil \/ IsBlank(a.ProxyURL) THEN DefaultClient
    ELSE LET u == ParseURL(a.ProxyURL)
         IN  IF u.err THEN DefaultClient ELSE ProxyClient(u)

buildHTTPClient(a) ==
    IF a.nil \/ IsBlank(a.ProxyURL) THEN DefaultClient
    ELSE LET u == ParseURL(a.ProxyURL)
         IN  IF u.err \/ (u.Scheme # "http" /\ u.Scheme # "https")
             THEN DefaultClient
             ELSE ProxyClient(u)

\* provider.Response{} and the errors of the executor.
EmptyResponse == [Payload |-> ""]
NoError == [nil |-> TRUE, msg |-> "", StatusCode |-> 0]
notImplementedError(msg) ==
    [nil |-> FALSE, msg |-> msg, StatusCode |-> StatusNotImplemented]

\* A CountTokens that answers with an empty response and no error.
CountTokensSilent(a, payload) == [resp |-> EmptyResponse, err |-> NoError]

\* MyExecutor.CountTokens
CountTokens(a, payload) ==
    [resp |-> EmptyResponse,
     err |-> notImplementedError("count tokens not supported for myprov")]


\* Bodies the upstream service answers with.
Bodies == {"{\"ok\":true}"}

NoExecute == [called |-> FALSE]

\* The chunks one ExecuteStream call produces, in order.
StreamChunks == <<"data: {\"ok\":true}\n\n">>

StreamIds == 1..MaxStreams

\* make(chan provider.StreamChunk) : a channel without a buffer.
NewStreamUnbuffered ==
    [cap |-> 0, buf |-> <<>>, closed |-> FALSE, closes |-> 0,
     producer |-> "send", sent |-> 0, consumer |-> "reading", received |-> <<>>]

\* make(chan provider.StreamChunk, 1), the goroutine started and the channel
\* handed to the caller.
NewStream ==
    [cap |-> 1, buf |-> <<>>, closed |-> FALSE, closes |-> 0,
     producer |-> "send", sent |-> 0, consumer |-> "reading", received |-> <<>>]

ExecutorInit ==
    /\ exec = NoExecute
    /\ count = NoExecute
    /\ upstream = 0
    \* no stream is open yet
    /\ streams = [s \in StreamIds |->
                    [cap |-> 0, buf |-> <<>>, closed |-> FALSE, closes |-> 0,
                     producer |-> "none", sent |-> 0, consumer |-> "none",
                     received |-> <<>>]]

\* The caller of the executor makes one call of Execute or CountTokens at a time.
NoCallPending == ~exec.called /\ ~count.called

\* MyExecutor.Execute: the request is built for the endpoint of the
\* credential, sent with the client of buildHTTPClient, and its body returned.
Execute ==
    \E a \in {NilAuth} \cup {[nil |-> FALSE, ProxyURL |-> u] : u \in ProxyURLs},
       body \in Bodies, outcome \in {"errNew", "errDo", "ok"} :
        /\ NoCallPending
        /\ outcome # "errNew" => upstream < MaxRequests
        /\ exec' = [called |-> TRUE, auth |-> a,
                    client |-> buildHTTPClient(a),
                    resp |-> IF outcome = "ok" THEN [Payload |-> body]
                             ELSE EmptyResponse,
                    err |-> IF outcome = "ok" THEN NoError
                            ELSE [nil |-> FALSE, msg |-> outcome, StatusCode |-> 0]]
        /\ upstream' = IF outcome = "errNew" THEN upstream ELSE upstream + 1
        /\ UNCHANGED <<count, streams>>

\* A call of MyExecutor.CountTokens.
CallCountTokens ==
    \E a \in {NilAuth, [nil |-> FALSE, ProxyURL |-> "http://proxy:8080"]},
       payload \in {"", "{}"} :
        /\ NoCallPending
        /\ UNCHANGED <<exec, upstream, streams>>
        /\ count' = [called |-> TRUE, auth |-> a, payload |-> payload,
                     result |-> CountTokens(a, payload),
                     upstreamBefore |-> upstream, upstreamAfter |-> upstream']

\* The caller has taken the result of its call.
ReturnToCaller ==
    /\ ~NoCallPending
    /\ exec' = NoExecute
    /\ count' = NoExecute
    /\ UNCHANGED <<upstream, streams>>

\* MyExecutor.ExecuteStream
ExecuteStream ==
    \E s \in StreamIds :
        /\ streams[s].producer = "none"
        /\ \A t \in StreamIds : t < s => streams[t].producer # "none"
        /\ streams' = [streams EXCEPT ![s] = NewStream]
        /\ UNCHANGED <<exec, count, upstream>>

\* ch <- chunk : into the buffer when it has room, to a receiver that is
\* waiting when the channel has no buffer; the goroutine blocks otherwise.
CanSend(st) ==
    \/ Len(st.buf) < st.cap
    \/ st.cap = 0 /\ st.consumer = "reading"

ProducerSend(s) ==
    LET st == streams[s]
        chunk == StreamChunks[st.sent + 1]
    IN  /\ st.producer = "send"
        /\ CanSend(st)
        /\ streams' = [streams EXCEPT ![s] =
                [st EXCEPT !.buf = IF Len(st.buf) < st.cap
                                   THEN Append(st.buf, chunk) ELSE st.buf,
                           !.received = IF Len(st.buf) < st.cap
                                        THEN st.received
                                        ELSE Append(st.received, chunk),
                           !.sent = st.sent + 1,
                           !.producer = IF st.sent + 1 = Len(StreamChunks)
                                        THEN "close" ELSE "send"]]
        /\ UNCHANGED <<exec, count, upstream>>

\* defer close(ch), and the goroutine returns.
ProducerClose(s) ==
    LET st == streams[s]
    IN  /\ st.producer = "close"
        /\ streams' = [streams EXCEPT ![s] =
                [st EXCEPT !.closed = TRUE, !.closes = st.closes + 1,
                           !.producer = "done"]]
        /\ UNCHANGED <<exec, count, upstream>>

\* The caller receives from the channel: a buffered chunk, or the end of the
\* stream once the channel is closed and drained.
ConsumerReceive(s) ==
    LET st == streams[s]
    IN  /\ st.consumer = "reading"
        /\ \/ /\ st.buf # <<>>
              /\ streams' = [streams EXCEPT ![s] =
                      [st EXCEPT !.buf = Tail(st.buf),
                                 !.received = Append(st.received, Head(st.buf))]]
           \/ /\ st.buf = <<>>
              /\ st.closed
              /\ streams' = [streams EXCEPT ![s] = [st EXCEPT !.consumer = "ended"]]
        /\ UNCHANGED <<exec, count, upstream>>

\* The caller stops reading the channel.
ConsumerAbandon(s) ==
    /\ streams[s].consumer = "reading"
    /\ streams' = [streams EXCEPT ![s] = [streams[s] EXCEPT !.consumer = "abandoned"]]
    /\ UNCHANGED <<exec, count, upstream>>


(***************************************************************************)
(*                    translator/ir: the memory pools                      *)
(* Seven sync.Pool variables and their Get*/Put* functions, called by      *)
(* tasks that run side by side.  An object is a *bytes.Buffer, a           *)
(* *strings.Builder, a map, a *ContentCoalescer, or the backing array of a *)
(* []any, []string or []byte slice; for the slice pools the pool keeps a   *)
(* pointer to a slice header, which stands for the backing array the       *)
(* header points to.  Of an object's contents the model keeps whether      *)
(* there are any: len is 0, or 1 for any positive length.                  *)
(***************************************************************************)
Tasks == {"t1", "t2"}
PoolKinds ==
    {"buffer", "stringBuilder", "anySlice", "stringSlice", "map", "sseChunk",
     "coalescer"}
ObjectIds == 1..MaxObjects

NoObject == [kind |-> "none", cap |-> 0, len |-> 0, lastRole |-> ""]

\* capHint of GetAnySlice and GetStringSlice, capacity of GetContentCoalescer
CapHints == {8, 32}

\* What the New function of each pool allocates.
NewObject(k) ==
    [kind |-> k,
     cap |-> CASE k = "buffer" -> 1024
               [] k = "stringBuilder" -> 512
               [] k = "anySlice" -> 16
               [] k = "stringSlice" -> 8
               [] k = "map" -> 8
               [] k = "sseChunk" -> 512
               [] k = "coalescer" -> 16,
     len |-> 0,
     lastRole |-> ""]

PoolsInit ==
    /\ objs = [o \in ObjectIds |-> NoObject]
    /\ pooled = [k \in PoolKinds |-> {}]
    /\ held = [t \in Tasks |-> {}]

\* A pool whose Get hands an object out and keeps it.
PoolGetKeepsObject(items, o) == items

\* sync.Pool.Get, when it finds o in the pool: o leaves the pool.
PoolGet(items, o) == items \ {o}

\* sync.Pool.Put
PoolPut(items, o) == items \cup {o}

\* Memory that holds no object.
FreeIds == {o \in ObjectIds : objs[o].kind = "none"}

\* s[:0], buf.Reset(), sb.Reset(), clear(m): the same object, without contents.
Emptied(obj) == [obj EXCEPT !.len = 0]

\* if cap(s) < n { s = make([]T, 0, n) }
MadeAtLeast(obj, n) ==
    IF obj.cap < n THEN [obj EXCEPT !.cap = n, !.len = 0] ELSE obj

\* append(buf, ...) of at least one element, within cap(buf).
Appended(obj) == [obj EXCEPT !.len = 1]

\* pool.Get() for task t: an object of the pool, or, when the pool hands
\* nothing out, the object its New function allocates.  Before the Get*
\* function returns it, it may reslice it to [:0], replace it by one of
\* capacity atLeast when it is smaller, and append to it.
GetFrom(t, k, reslice, atLeast, append) ==
    LET Taken(obj) ==
            LET got == IF reslice THEN Emptied(obj) ELSE obj
                buf == MadeAtLeast(got, atLeast)
            IN  IF append THEN Appended(buf) ELSE buf
    IN
    \/ \E o \in pooled[k] :
          /\ pooled' = [pooled EXCEPT ![k] = PoolGet(pooled[k], o)]
          /\ objs' = [objs EXCEPT ![o] = Taken(objs[o])]
          /\ held' = [held EXCEPT ![t] = held[t] \cup {o}]
    \/ \E o \in FreeIds :
          /\ \A p \in FreeIds : o <= p
          /\ objs' = [objs EXCEPT ![o] = Taken(NewObject(k))]
          /\ held' = [held EXCEPT ![t] = held[t] \cup {o}]
          /\ UNCHANGED pooled

\* pool.Put(stored) by the task that holds o, stored being o as the Put*
\* function leaves it; an object that is not kept is left to the garbage
\* collector.
PutInto(t, k, o, stored, keep) ==
    /\ o \in held[t]
    /\ objs[o].kind = k
    /\ held' = [held EXCEPT ![t] = held[t] \ {o}]
    /\ pooled' = [pooled EXCEPT ![k] = IF keep THEN PoolPut(pooled[k], o) ELSE pooled[k]]
    /\ objs' = [objs EXCEPT ![o] = IF keep THEN stored ELSE NoObject]

\* A PutBuffer without buf.Reset().
PutBufferNoReset(t, o) == PutInto(t, "buffer", o, objs[o], TRUE)

GetBuffer(t) == GetFrom(t, "buffer", FALSE, 0, FALSE)
PutBuffer(t, o) == PutInto(t, "buffer", o, Emptied(objs[o]), TRUE)

GetStringBuilder(t) == GetFrom(t, "stringBuilder", FALSE, 0, FALSE)
PutStringBuilder(t, o) == PutInto(t, "stringBuilder", o, Emptied(objs[o]), TRUE)

GetAnySlice(t, capHint) == GetFrom(t, "anySlice", TRUE, capHint, FALSE)
PutAnySlice(t, o) == PutInto(t, "anySlice", o, Emptied(objs[o]), TRUE)

GetStringSlice(t, capHint) == GetFrom(t, "stringSlice", TRUE, capHint, FALSE)
PutStringSlice(t, o) == PutInto(t, "stringSlice", o, Emptied(objs[o]), TRUE)

GetMap(t) == GetFrom(t, "map", FALSE, 0, FALSE)
PutMap(t, o) == PutInto(t, "map", o, Emptied(objs[o]), TRUE)

\* A PutSSEChunkBuf that pools whatever it is given.
PutSSEChunkBufKeepsAll(t, o) == PutInto(t, "sseChunk", o, Emptied(objs[o]), TRUE)

GetSSEChunkBuf(t) == GetFrom(t, "sseChunk", TRUE, 0, FALSE)
PutSSEChunkBuf(t, o) ==
    PutInto(t, "sseChunk", o, Emptied(objs[o]),
            objs[o].cap >= 512 /\ objs[o].cap <= 4096)

\* BuildSSEChunk and BuildSSEEvent, as the pool sees them: GetSSEChunkBuf, a
\* buffer of the chunk's size when the pooled one is smaller, and the chunk
\* appended to it.
BuildSSEChunk(t, size) == GetFrom(t, "sseChunk", TRUE, size, TRUE)

GetContentCoalescer(t, capacity) == GetFrom(t, "coalescer", FALSE, capacity, FALSE)
PutContentCoalescer(t, o) ==
    PutInto(t, "coalescer", o, [Emptied(objs[o]) EXCEPT !.lastRole = ""], TRUE)

\* The holder of a buffer, builder, slice or map writes to it.
TaskWrites(t, o) ==
    /\ o \in held[t]
    /\ objs[o].kind \notin {"none", "coalescer"}
    /\ objs[o].len = 0
    /\ objs' = [objs EXCEPT ![o] = Appended(objs[o])]
    /\ UNCHANGED <<pooled, held>>

\* The holder of a coalescer emits a message that has parts: c.Emit(role, parts).
TaskEmits(t, o, role) ==
    /\ o \in held[t]
    /\ objs[o].kind = "coalescer"
    /\ ~(role = objs[o].lastRole /\ objs[o].len > 0)
    /\ objs' = [objs EXCEPT ![o] = [Appended(objs[o]) EXCEPT !.lastRole = role]]
    /\ UNCHANGED <<pooled, held>>

\* A task makes a byte slice of its own, make([]byte, 0, n), which it may hand
\* to PutSSEChunkBuf like any other.
MakeBytes(t, n) ==
    \E o \in FreeIds :
        /\ \A p \in FreeIds : o <= p
        /\ objs' = [objs EXCEPT ![o] = [NewObject("sseChunk") EXCEPT !.cap = n]]
        /\ held' = [held EXCEPT ![t] = held[t] \cup {o}]
        /\ UNCHANGED pooled

\* The garbage collector empties a pool of an object nobody took.
PoolDrops ==
    \E k \in PoolKinds, o \in ObjectIds :
        /\ o \in pooled[k]
        /\ pooled' = [pooled EXCEPT ![k] = pooled[k] \ {o}]
        /\ objs' = [objs EXCEPT ![o] = NoObject]
        /\ UNCHANGED held

\* The Get* calls of the byte-buffer, []any, map, SSE and coalescer pools.
PoolGets(t) ==
    \/ GetBuffer(t)
    \/ \E h \in CapHints : GetAnySlice(t, h)
    \/ GetMap(t)
    \/ GetSSEChunkBuf(t)
    \/ \E size \in {100, 8192} : BuildSSEChunk(t, size)
    \/ \E h \in CapHints : GetContentCoalescer(t, h)

PoolPuts(t) ==
    \E o \in ObjectIds :
        \/ PutBuffer(t, o)
        \/ PutAnySlice(t, o)
        \/ PutMap(t, o)
        \/ PutSSEChunkBuf(t, o)
        \/ PutContentCoalescer(t, o)

(***************************************************************************)
(*          management: the Auth records of the device flows               *)
(* What pollQwenToken and pollCopilotToken hand to saveTokenRecord.  A     *)
(* string built by fmt.Sprintf is kept as the sequence of its pieces.      *)
(***************************************************************************)
\* The upstream accounts that log in; for Copilot the account's GitHub username.
Accounts == {"alice", "bob"}

\* tokenStorage.Email = fmt.Sprintf("qwen-%d", time.Now().UnixMilli())
QwenEmail(ms) == <<"qwen", "-", ms>>

\* The record of pollQwenToken, built at millisecond ms.
QwenRecord(ms) ==
    [ID       |-> <<"qwen", "-">> \o QwenEmail(ms) \o <<".json">>,
     Provider |-> "qwen",
     FileName |-> <<"qwen", "-">> \o QwenEmail(ms) \o <<".json">>,
     account  |-> QwenEmail(ms)]

\* The record of pollCopilotToken for creds.Username.
CopilotRecord(username) ==
    [ID       |-> <<"github-copilot", "-", username, ".json">>,
     Provider |-> "github-copilot",
     FileName |-> <<"github-copilot", "-", username, ".json">>,
     account  |-> <<username>>]

RecordsInit ==
    /\ saves = {}
    /\ millis = 0

\* A Qwen device flow of account who gets its token and saves its record.
SaveQwenRecord ==
    \E who \in Accounts :
        /\ saves' = saves \cup {[who |-> who, rec |-> QwenRecord(millis)]}
        /\ UNCHANGED millis

\* A Copilot device flow of account who is verified and saves its record.
SaveCopilotRecord ==
    \E who \in Accounts :
        /\ saves' = saves \cup {[who |-> who, rec |-> CopilotRecord(who)]}
        /\ UNCHANGED millis

\* time.Now().UnixMilli() moves on.
MilliPasses ==
    /\ millis < MaxMillis
    /\ millis' = millis + 1
    /\ UNCHANGED saves

(***************************************************************************)
(*          management: the state ids of the device flows                  *)
(* The registry keyed by the state strings that startQwenDeviceFlow and    *)
(* startCopilotDeviceFlow make.  Flows are numbered in the order they are  *)
(* started; a string built by fmt.Sprintf is the sequence of its pieces.   *)
(***************************************************************************)
\* Device codes the upstream issues, each once (shortened: 8 characters and
\* one more).
DeviceCodes ==
    { <<"3", "5", "8", "4", "d", "8", "3", "5", "a">>,
      <<"3", "5", "8", "4", "d", "8", "3", "5", "b">>,
      <<"9", "c", "0", "1", "7", "e", "2", "f", "a">> }

\* state := fmt.Sprintf("copilot-%s", deviceCode.DeviceCode[:8])
CopilotState(deviceCode) == <<"copilot-">> \o SubSeq(deviceCode, 1, 8)

\* state := fmt.Sprintf("qwen-%d", time.Now().UnixNano())
QwenState(ns) == <<"qwen-", ns>>

StateIdsInit ==
    /\ entries = {}
    /\ flows = {}
    /\ issued = {}
    /\ nanos = 0

\* Registry().Create(state, provider, mode): the entry of the state, whether
\* it is new or stands for another flow, is the new flow's.
CreateEntry(reg, state, n) ==
    {e \in reg : e.state # state} \cup {[state |-> state, flow |-> n]}

NextFlowNumber == Cardinality(issued) + 1

\* What both device-flow starts do once they have their state.
RegisterFlow(kind, state, token) ==
    /\ Cardinality(issued) < MaxStarts
    /\ entries' = CreateEntry(entries, state, NextFlowNumber)
    /\ flows' = flows \cup {[n |-> NextFlowNumber, kind |-> kind, state |-> state]}
    /\ issued' = issued \cup {token}

\* startCopilotDeviceFlow with the device code the upstream issued.
StartCopilotFlow ==
    \E deviceCode \in DeviceCodes \ issued :
        /\ RegisterFlow("copilot", CopilotState(deviceCode), deviceCode)
        /\ UNCHANGED nanos

\* startQwenDeviceFlow at the present reading of the clock.
StartQwenFlow ==
    /\ RegisterFlow("qwen", QwenState(nanos), <<"qwen", NextFlowNumber>>)
    /\ UNCHANGED nanos

\* time.Now().UnixNano() reads a later time.
NanoPasses ==
    /\ nanos < MaxNanos
    /\ nanos' = nanos + 1
    /\ UNCHANGED <<entries, flows, issued>>

\* A flow has ended and the registry has collected the entry of its state.
FlowCollected ==
    \E f \in flows :
        /\ flows' = flows \ {f}
        /\ entries' = {e \in entries : e.state # f.state}
        /\ UNCHANGED <<issued, nanos>>

(***************************************************************************)
(*               translator/ir: the SSE chunk builders                     *)
(* BuildSSEChunk and BuildSSEEvent byte by byte.  A byte string is the     *)
(* sequence of its bytes; a []byte buffer is its capacity and the bytes up *)
(* to its length.                                                          *)
(***************************************************************************)
\* JSON documents of the lengths around which the builders change their path:
\* a 512-byte buffer holds a chunk of up to 504 bytes of JSON and an event of
\* type "ping" of up to 492.
JSONData ==
    { [i \in 1..n |-> IF i = 1 THEN 123 ELSE IF i = n THEN 125 ELSE 48 + (i % 10)] :
        n \in {0, 2, 492, 493, 504, 505, MaxJSONLen} }

\* What sseChunkPool.Get() may return: a buffer of the pool or a new one of
\* 512 bytes.
SSEPoolGet == sse.pool \cup { [cap |-> 512, bytes |-> <<>>] }

\* append(buf, data...): in place while cap(buf) is enough, else in a larger
\* array.
AppendBytes(buf, data) ==
    LET needed == Len(buf.bytes) + Len(data)
    IN  [cap |-> IF needed <= buf.cap THEN buf.cap ELSE GrowCap(buf.cap, needed),
         bytes |-> buf.bytes \o data]

\* A BuildSSEChunk that leaves out the blank line.
BuildSSEChunkUnterminated(bp, jsonData) ==
    LET size == 6 + Len(jsonData) + 2
        got == [bp EXCEPT !.bytes = <<>>]
        buf == IF got.cap < size THEN [cap |-> size, bytes |-> <<>>] ELSE got
    IN  AppendBytes(AppendBytes(buf, <<100, 97, 116, 97, 58, 32>>), jsonData)

\* BuildSSEChunk(jsonData), bp being what sseChunkPool.Get() returned.
BuildSSEChunkBytes(bp, jsonData) ==
    LET size == 6 + Len(jsonData) + 2
        got == [bp EXCEPT !.bytes = <<>>]                     \* (*bp)[:0]
        buf == IF got.cap < size THEN [cap |-> size, bytes |-> <<>>] ELSE got
        b1 == AppendBytes(buf, <<100, 97, 116, 97, 58, 32>>)  \* "data: "
        b2 == AppendBytes(b1, jsonData)
    IN  AppendBytes(b2, <<10, 10>>)                           \* "\n\n"

\* BuildSSEEvent(eventType, jsonData), bp being what sseChunkPool.Get() returned.
BuildSSEEventBytes(bp, eventType, jsonData) ==
    LET size == 7 + Len(eventType) + 7 + Len(jsonData) + 2
        got == [bp EXCEPT !.bytes = <<>>]
        buf == IF got.cap < size THEN [cap |-> size, bytes |-> <<>>] ELSE got
        b1 == AppendBytes(buf, <<101, 118, 101, 110, 116, 58, 32>>)   \* "event: "
        b2 == AppendBytes(b1, eventType)
        b3 == AppendBytes(b2, <<10, 100, 97, 116, 97, 58, 32>>)       \* "\ndata: "
        b4 == AppendBytes(b3, jsonData)
    IN  AppendBytes(b4, <<10, 10>>)

\* No Build* call whose result is still in use.
NoSSECall ==
    [fn |-> "none", eventType |-> <<>>, jsonData |-> <<>>, pooledCap |-> 0,
     out |-> [cap |-> 0, bytes |-> <<>>], eventTypeAfter |-> <<>>, jsonDataAfter |-> <<>>]

SSEInit == sse = [pool |-> {}, call |-> NoSSECall]

\* A caller builds a chunk; the builder reads jsonData and writes to the buffer.
CallBuildSSEChunk ==
    /\ sse.call = NoSSECall
    /\ \E jsonData \in JSONData, bp \in SSEPoolGet :
          sse' = [pool |-> sse.pool \ {bp},
                  call |-> [fn |-> "BuildSSEChunk", eventType |-> <<>>,
                            jsonData |-> jsonData, pooledCap |-> bp.cap,
                            out |-> BuildSSEChunkBytes(bp, jsonData),
                            eventTypeAfter |-> <<>>, jsonDataAfter |-> jsonData]]

\* A caller builds an event.
CallBuildSSEEvent ==
    /\ sse.call = NoSSECall
    \* event types: none, and "ping"
    /\ \E eventType \in { <<>>, <<112, 105, 110, 103>> },
          jsonData \in JSONData, bp \in SSEPoolGet :
          sse' = [pool |-> sse.pool \ {bp},
                  call |-> [fn |-> "BuildSSEEvent", eventType |-> eventType,
                            jsonData |-> jsonData, pooledCap |-> bp.cap,
                            out |-> BuildSSEEventBytes(bp, eventType, jsonData),
                            eventTypeAfter |-> eventType, jsonDataAfter |-> jsonData]]

\* The caller is done with the chunk: PutSSEChunkBuf(out), which keeps a buffer
\* of 512 to 4096 bytes, emptied, and leaves any other to the garbage collector.
\* The pool may drop what it is given.
ReleaseSSEChunk ==
    /\ sse.call # NoSSECall
    /\ \E kept \in BOOLEAN :
          /\ kept => /\ sse.call.out.cap >= 512
                     /\ sse.call.out.cap <= 4096
                     /\ Cardinality(sse.pool) < MaxSSEPooled
          /\ sse' = [pool |-> IF kept
                              THEN sse.pool \cup {[sse.call.out EXCEPT !.bytes = <<>>]}
                              ELSE sse.pool,
                     call |-> NoSSECall]

(***************************************************************************)
(*                          Specifications                                 *)
(***************************************************************************)
LibraryInit == ReverseInit /\ QuirksInit /\ ExecutorInit /\ PoolsInit /\ RecordsInit
                 /\ StateIdsInit /\ SSEInit

InitFamilies == FamiliesInit /\ CoalescerInit /\ OAuthInit /\ LibraryInit
NextFamilies ==
    (CallResolveModelFamily \/ FinishRequest) /\ UNCHANGED <<coalescerVars, oauthVars, libraryVars>>
SpecFamilies == InitFamilies /\ [][NextFamilies]_vars

InitCoalescer == FamiliesInit /\ CoalescerInit /\ OAuthInit /\ LibraryInit
NextCoalescer ==
    (EmitFreshParts \/ EmitReusedBuffer \/ CallBuild)
        /\ UNCHANGED <<familyVars, oauthVars, libraryVars>>
SpecCoalescer == InitCoalescer /\ [][NextCoalescer]_vars

InitReverse == FamiliesInit /\ CoalescerInit /\ OAuthInit /\ LibraryInit
NextReverse ==
    (CallGetCanonicalModelID \/ FinishLookup)
        /\ UNCHANGED <<familyVars, coalescerVars, oauthVars, quirksVars, executorVars, poolVars,
                       recordVars, stateIdVars, sseVars>>
SpecReverse == InitReverse /\ [][NextReverse]_vars

\* The model registry fills, and the executors ask model_quirks about models.
InitQuirks == FamiliesInit /\ CoalescerInit /\ OAuthInit /\ LibraryInit
NextQuirks ==
    (RegisterModel \/ CallGetThinkingVariant \/ CallGetOutputTokenLimit \/ FinishQuirk)
        /\ UNCHANGED <<familyVars, coalescerVars, oauthVars, reverseVars, executorVars, poolVars,
                       recordVars, stateIdVars, sseVars>>
SpecQuirks == InitQuirks /\ [][NextQuirks]_vars

\* The example executor serves calls; the goroutine of each stream and the
\* reader of its channel run beside them.
InitExecutor == FamiliesInit /\ CoalescerInit /\ OAuthInit /\ LibraryInit
NextExecutor ==
    (Execute \/ CallCountTokens \/ ReturnToCaller \/ ExecuteStream
        \/ (\E s \in StreamIds : ProducerSend(s) \/ ProducerClose(s))
        \/ (\E s \in StreamIds : ConsumerReceive(s) \/ ConsumerAbandon(s)))
        /\ UNCHANGED <<familyVars, coalescerVars, oauthVars, reverseVars, quirksVars, poolVars,
                       recordVars, stateIdVars, sseVars>>
SpecExecutor == InitExecutor /\ [][NextExecutor]_vars

\* The Go scheduler runs every goroutine that can take a step.
SpecExecutorFair ==
    SpecExecutor /\ \A s \in StreamIds :
        WF_executorVars(ProducerSend(s)) /\ WF_executorVars(ProducerClose(s))

\* Tasks take objects out of the pools and put them back, in any interleaving.
InitPools == FamiliesInit /\ CoalescerInit /\ OAuthInit /\ LibraryInit
NextPools ==
    ((\E t \in Tasks : PoolGets(t) \/ PoolPuts(t)) \/ PoolDrops)
        /\ UNCHANGED <<familyVars, coalescerVars, oauthVars, reverseVars, quirksVars,
                       executorVars, recordVars, stateIdVars, sseVars>>
SpecPools == InitPools /\ [][NextPools]_vars

\* One task calls Get* and Put* of all seven pools and uses what it holds, among
\* them a chunk that outgrows the pool's buffers and still is one the pool keeps.
NextPoolContents ==
    (\/ PoolGets("t1") \/ PoolPuts("t1")
     \/ GetStringBuilder("t1")
     \/ \E h \in CapHints : GetStringSlice("t1", h)
     \/ \E o \in ObjectIds : PutStringBuilder("t1", o) \/ PutStringSlice("t1", o)
     \/ BuildSSEChunk("t1", 600)
     \/ MakeBytes("t1", 64)
     \/ \E o \in ObjectIds :
           \/ TaskWrites("t1", o)
           \/ \E role \in {"user", "model"} : TaskEmits("t1", o, role)
     \/ PoolDrops)
        /\ Cardinality(ObjectIds \ FreeIds') <= MaxLive
        /\ UNCHANGED <<familyVars, coalescerVars, oauthVars, reverseVars, quirksVars,
                       executorVars, recordVars, stateIdVars, sseVars>>
SpecPoolContents == InitPools /\ [][NextPoolContents]_vars

\* Device flows of several accounts save their records as time passes.
InitRecords == FamiliesInit /\ CoalescerInit /\ OAuthInit /\ LibraryInit
NextRecords ==
    (SaveQwenRecord \/ SaveCopilotRecord \/ MilliPasses)
        /\ UNCHANGED <<familyVars, coalescerVars, oauthVars, reverseVars, quirksVars,
                       executorVars, poolVars, stateIdVars, sseVars>>
SpecRecords == InitRecords /\ [][NextRecords]_vars

\* Callers build SSE chunks and events and give the buffers back.
NextSSE ==
    (CallBuildSSEChunk \/ CallBuildSSEEvent \/ ReleaseSSEChunk)
        /\ UNCHANGED <<familyVars, coalescerVars, oauthVars, reverseVars, quirksVars,
                       executorVars, poolVars, recordVars, stateIdVars>>
SpecSSE == InitPools /\ [][NextSSE]_vars

\* Device flows are started, one after the other or at the same reading of
\* the clock, and collected.
InitStateIds == FamiliesInit /\ CoalescerInit /\ OAuthInit /\ LibraryInit
NextStateIds ==
    (StartCopilotFlow \/ StartQwenFlow \/ NanoPasses \/ FlowCollected)
        /\ UNCHANGED <<familyVars, coalescerVars, oauthVars, reverseVars, quirksVars,
                       executorVars, poolVars, recordVars, sseVars>>
SpecStateIds == InitStateIds /\ [][NextStateIds]_vars

\* The management API and its polling tasks, time left out: a context may run
\* out, and the registry may expire or collect a flow, at any moment.
InitOAuth == FamiliesInit /\ CoalescerInit /\ OAuthInit /\ LibraryInit
NextOAuth ==
    ( \/ OAuthStart
      \/ OAuthStatus
      \/ OAuthCancel
      \/ ResponseSent
      \/ \E f \in FlowIds : PollReturns(f)
      \/ \E f \in FlowIds : VerifyReturns(f)
      \/ \E f \in FlowIds : SaveReturns(f)
      \/ \E f \in FlowIds : CtxDeadline(f)
      \/ \E f \in FlowIds : RegistryExpire(f)
      \/ \E f \in FlowIds : RegistryGC(f) )
        /\ UNCHANGED <<familyVars, coalescerVars, libraryVars>>
SpecOAuth == InitOAuth /\ [][NextOAuth]_vars

\* The device flows against a clock of minutes.
InitOAuthTimed == FamiliesInit /\ CoalescerInit /\ OAuthInit /\ LibraryInit
NextOAuthTimed ==
    ( \/ OAuthStart
      \/ OAuthStatus
      \/ OAuthCancel
      \/ ResponseSent
      \/ \E f \in FlowIds : PollReturns(f)
      \/ \E f \in FlowIds : VerifyReturns(f)
      \/ \E f \in FlowIds : SaveReturns(f)
      \/ Tick )
        /\ UNCHANGED <<familyVars, coalescerVars, libraryVars>>
SpecOAuthTimed == InitOAuthTimed /\ [][NextOAuthTimed]_vars

(***************************************************************************)
(*                              Claims                                     *)
(***************************************************************************)
Called == resolveIn.called

AvailableMembers(C, P) ==
    {i \in DOMAIN ModelFamilies[C] : ModelFamilies[C][i].Provider \in Range(P)}

\* C1: for a family key C and a list P in which some member's provider occurs,
\* ResolveModelFamily(C, P) returns found = TRUE with the provider and model id of
\* the member of lowest declaration index whose provider is in P; reordering P or
\* repeating its elements does not change the result.
C1_FirstAvailableMemberWins ==
    Called =>
        LET C == resolveIn.canonicalID
            P == resolveIn.availableProviders
        IN  (C \in DOMAIN ModelFamilies /\ AvailableMembers(C, P) # {}) =>
                /\ resolveOut.found
                /\ resolveOut.provider \in Range(P)
                /\ \E i \in DOMAIN ModelFamilies[C] :
                       /\ ModelFamilies[C][i] =
                              FamilyMember(resolveOut.provider, resolveOut.modelID)
                       /\ \A j \in 1..(i - 1) : ModelFamilies[C][j].Provider \notin Range(P)
                /\ ResolveModelFamily(C, Reverse(P)) = resolveOut
                /\ ResolveModelFamily(C, P \o P) = resolveOut

\* C1's case: a family whose first member is unavailable while two later members
\* are, the lower-priority one listed first in P.
C1_Witness ==
    /\ Called
    /\ resolveIn.canonicalID = "gemini-2.5-flash"
    /\ resolveIn.availableProviders = <<"gemini", "aistudio">>
    /\ resolveOut = ResolveResult("aistudio", "gemini-2.5-flash", TRUE)

\* C2: ResolveModelFamily(C, P) returns ("", C, false) exactly when C is no family
\* key or no member of C's family has its provider in P; otherwise found is TRUE
\* and the provider is not empty.
C2_NotFoundEchoesID ==
    Called =>
        LET C == resolveIn.canonicalID
            P == resolveIn.availableProviders
            noMatch == C \notin DOMAIN ModelFamilies \/ AvailableMembers(C, P) = {}
        IN  /\ noMatch <=> (resolveOut = ResolveResult("", C, FALSE))
            /\ noMatch <=> ~resolveOut.found
            /\ ~noMatch => (resolveOut.found /\ resolveOut.provider # "")

\* C2's case: a family key none of whose providers is in a non-empty P.
C2_Witness ==
    /\ Called
    /\ resolveIn.canonicalID = "claude-opus-4-5"
    /\ resolveIn.availableProviders = <<"qwen", "gemini">>
    /\ resolveOut = ResolveResult("", "claude-opus-4-5", FALSE)

\* The <<role, part>> pairs of a list of messages (or contents), in list order.
RECURSIVE RoleParts(_)
RoleParts(ms) ==
    IF ms = <<>> THEN <<>>
    ELSE [i \in 1..Len(ms[1].parts) |-> <<ms[1].role, ms[1].parts[i]>>] \o RoleParts(Tail(ms))

\* C3: in the list Build returns after any sequence of Emit calls on an empty
\* coalescer, no two adjacent contents have the same role (the role "" included).
C3_NoAdjacentSameRole ==
    built.done =>
        \A i \in 1..(Len(built.list) - 1) : built.list[i].role # built.list[i + 1].role

\* C3's case: two non-empty messages of role "" emitted first, in a row, were
\* merged into one content, which a content of another role follows.
C3_Witness ==
    /\ built.done
    /\ Len(emitted) = 3
    /\ emitted[1].role = "" /\ emitted[1].parts # <<>>
    /\ emitted[2].role = "" /\ emitted[2].parts # <<>>
    /\ emitted[3].role = "user" /\ emitted[3].parts # <<>>
    /\ Len(built.list) = 2
    /\ built.list[1].role = ""
    /\ built.list[1].parts = emitted[1].parts \o emitted[2].parts

\* C4: the parts of the contents Build returns, concatenated in list order, are
\* the parts arguments of the Emit calls, concatenated in call order, each part in
\* a content of the role it was emitted with.
C4_PartsPreserved ==
    built.done => RoleParts(built.list) = RoleParts(emitted)


(***************************************************************************)
(*                    Claims on the management handlers                    *)
(***************************************************************************)
DeviceFlows == {f \in FlowIds : flowKind[f] \in {"qwen", "copilot"}}
Ended(f) == task[f].pc = "done"

\* C5: a completed flow has exactly one Auth record.  A device flow is marked
\* completed only after saveTokenRecord succeeded for it; its task saves at
\* most one record and reports at most once, Complete only after a successful
\* save; a task whose save failed reports Fail, which marks a flow that was
\* still pending failed, and the flow is never completed; and a status
\* response says completed only when the record exists.
C5_CompletedFlowHasOneAuthRecord ==
    /\ \A f \in FlowIds :
        /\ saved[f] <= 1
        /\ registry[f] = "completed" => saved[f] = 1 /\ task[f].save = "ok"
        /\ Len(task[f].calls) <= 1
        /\ "Complete" \in Range(task[f].calls) => saved[f] = 1 /\ task[f].save = "ok"
        /\ task[f].save = "error" =>
              /\ saved[f] = 0
              /\ task[f].calls = <<"Fail">>
              /\ registry[f] # "completed"
              /\ task[f].found = "pending" => registry[f] \in {"failed", "absent"}
    /\ response.op = "status" /\ response.code = 200 /\ response.status = "completed"
          => saved[response.state] = 1

\* A status request is answered with completed for a flow whose task saved.
C5_Witness ==
    \E f \in DeviceFlows :
        /\ registry[f] = "completed"
        /\ task[f].calls = <<"Complete">>
        /\ response.op = "status" /\ response.state = f
        /\ response.status = "completed"

C7_OutcomeMapping ==
    \A f \in DeviceFlows :
        Ended(f) /\ task[f].found = "pending" =>
            LET t == task[f]
                failedCall == "error" \in {t.poll, t.verify, t.save}
            IN  /\ t.save = "ok" => t.calls = <<"Complete">> /\ saved[f] = 1
                /\ failedCall /\ ~t.ctxAtError => t.calls = <<"Fail">>
                /\ failedCall /\ t.ctxAtError => t.calls = <<"Cancel">>

\* C8: once OAuthCancel succeeded on a pending flow whose task was polling,
\* the task saves no Auth record and the flow is never completed or failed.
C8_CancelStopsPolling ==
    \A f \in cancelSeen :
        /\ saved[f] = 0
        /\ registry[f] \notin {"completed", "failed"}

C10_IFlowRejected ==
    response.op = "start" /\ lastCall.provider = "iflow" =>
        /\ response.code = 400
        /\ response.status = "error"
        /\ response.error = ErrIFlow
        /\ ~lastCall.changed

\* A start request for iflow was answered while a flow was in progress.
C10_Witness ==
    /\ response.op = "start"
    /\ lastCall.provider = "iflow"
    /\ \E f \in FlowIds : registry[f] = "pending"

Precedes(seq, a, b) ==
    \E i, j \in DOMAIN seq : i < j /\ seq[i] = a /\ seq[j] = b

C12_ReverseLookupSound ==
    reverse.called =>
        LET id == reverse.providerModelID
            out == reverse.canonical
        IN  /\ out # "" =>
                /\ out \in DOMAIN ModelFamilies
                /\ HasModelID(ModelFamilies[out], id)
            /\ out = "" <=>
                ~ \E k \in DOMAIN ModelFamilies : HasModelID(ModelFamilies[k], id)

\* A provider's id that is no family key is traced back to its family, with the
\* family not the first the iteration meets.
C12_Witness ==
    /\ reverse.called
    /\ reverse.providerModelID = "gemini-claude-sonnet-4-5"
    /\ reverse.canonical = "claude-sonnet-4-5"
    /\ Head(reverse.order) # "claude-sonnet-4-5"

\* C13: getThinkingVariant(id) is id when id ends in "-thinking", otherwise
\* id + "-thinking" when the registry knows that model, otherwise the empty
\* string; and applied to a result that is not empty it returns that result.
C13_ThinkingVariant ==
    quirk.called /\ quirk.fn = "getThinkingVariant" =>
        LET id == quirk.model
            out == quirk.variant
        IN  /\ hasThinkingSuffix(id) => out = id
            /\ ~hasThinkingSuffix(id) /\ WithThinking(id) \in DOMAIN modelInfos
                  => out = WithThinking(id)
            /\ ~hasThinkingSuffix(id) /\ WithThinking(id) \notin DOMAIN modelInfos
                  => out = EmptyName
            /\ out # EmptyName => getThinkingVariant(modelInfos, out) = out

\* The thinking variant of a plain model was found in the registry, the plain
\* model itself not being registered.
C13_Witness ==
    /\ quirk.called
    /\ quirk.fn = "getThinkingVariant"
    /\ quirk.model = ModelName("claude-sonnet-4-5", 0)
    /\ quirk.variant = ModelName("claude-sonnet-4-5", 1)
    /\ ModelName("claude-sonnet-4-5", 0) \notin DOMAIN modelInfos

\* C14: getOutputTokenLimit(id) is the model's OutputTokenLimit when that is
\* greater than 0, otherwise its MaxCompletionTokens, and 0 when neither is
\* set or the model is not registered.
C14_OutputTokenLimit ==
    quirk.called /\ quirk.fn = "getOutputTokenLimit" =>
        LET id == quirk.model
        IN  IF id \notin DOMAIN modelInfos THEN quirk.limit = 0
            ELSE LET info == modelInfos[id]
                 IN  /\ info.OutputTokenLimit > 0 => quirk.limit = info.OutputTokenLimit
                     /\ info.OutputTokenLimit <= 0
                           => quirk.limit = info.MaxCompletionTokens
                     /\ info.OutputTokenLimit = 0 /\ info.MaxCompletionTokens = 0
                           => quirk.limit = 0

\* A model with both fields set was asked for: the explicit limit won.
C14_Witness ==
    /\ quirk.called
    /\ quirk.fn = "getOutputTokenLimit"
    /\ quirk.model \in DOMAIN modelInfos
    /\ modelInfos[quirk.model].OutputTokenLimit > 0
    /\ modelInfos[quirk.model].MaxCompletionTokens > 0
    /\ quirk.limit = modelInfos[quirk.model].OutputTokenLimit

OnlyAvailable(provider) == Range(resolveIn.availableProviders) = {provider}

\* C15: on the table as shipped, "gemini-2.5-flash" resolves to (gemini-cli,
\* "gemini-2.5-flash") when only gemini-cli is available and to (aistudio,
\* "gemini-2.5-flash") when only aistudio is, and "claude-sonnet-4-5-thinking"
\* resolves to (antigravity, "gemini-claude-sonnet-4-5-thinking") when only
\* antigravity is available.
C15_ShippedTableExamples ==
    Called =>
        /\ resolveIn.canonicalID = "gemini-2.5-flash" /\ OnlyAvailable("gemini-cli")
              => resolveOut = ResolveResult("gemini-cli", "gemini-2.5-flash", TRUE)
        /\ resolveIn.canonicalID = "gemini-2.5-flash" /\ OnlyAvailable("aistudio")
              => resolveOut = ResolveResult("aistudio", "gemini-2.5-flash", TRUE)
        /\ resolveIn.canonicalID = "claude-sonnet-4-5-thinking"
              /\ OnlyAvailable("antigravity")
              => resolveOut = ResolveResult("antigravity",
                                            "gemini-claude-sonnet-4-5-thinking", TRUE)

\* "claude-sonnet-4-5-thinking" was resolved with antigravity alone.
C15_Witness ==
    /\ Called
    /\ resolveIn.canonicalID = "claude-sonnet-4-5-thinking"
    /\ resolveIn.availableProviders = <<"antigravity">>
    /\ resolveOut.modelID = "gemini-claude-sonnet-4-5-thinking"

\* C16: a status or cancel request for a state the registry does not hold,
\* because it was never registered or has been collected, is answered 404 with
\* status "error", and the request creates and changes no flow.
C16_UnknownStateNotFound ==
    /\ response.op \in {"status", "cancel"}
    /\ lastCall.state \in FlowIds
    /\ lastCall.before = "absent"
    => /\ response.code = 404
       /\ response.status = "error"
       /\ response.error =
             (IF response.op = "status" THEN ErrStatusNotFound ELSE ErrCancelNotFound)
       /\ lastCall.after = "absent"
       /\ ~lastCall.changed

\* A status request for a flow that ended and was collected.
C16_Witness ==
    /\ response.op = "status"
    /\ response.code = 404
    /\ lastCall.state \in FlowIds
    /\ flowKind[lastCall.state] # "none"
    /\ task[lastCall.state].pc = "done"

\* C17: buildHTTPClient returns a client that goes through the proxy exactly
\* when the credential is not nil and its ProxyURL is not blank, parses, and
\* has the scheme http or https; in every other case it returns the default
\* client.
ProxiedURLs == {"http://proxy:8080", "https://proxy:8443", "HTTP://proxy:8080"}

C17_ProxyClientExactlyForHTTPProxy ==
    exec.called =>
        LET a == exec.auth
            u == ParseURL(a.ProxyURL)
            usable == /\ ~a.nil
                      /\ ~IsBlank(a.ProxyURL)
                      /\ ~u.err
                      /\ u.Scheme \in {"http", "https"}
        IN  /\ exec.client.proxied <=> usable
            /\ usable <=> (~a.nil /\ a.ProxyURL \in ProxiedURLs)
            /\ usable => exec.client = ProxyClient(u)
            /\ ~usable => exec.client = DefaultClient

C17_Witness ==
    /\ exec.called
    /\ exec.auth.ProxyURL = "https://proxy:8443"
    /\ exec.client.proxied
    /\ exec.client.proxy = "proxy:8443"

\* C18: CountTokens returns, for every credential and request, an empty
\* response and a "not implemented" error whose status code is 501, and sends
\* nothing to the upstream service.
C18_CountTokensNotImplemented ==
    count.called =>
        /\ count.result.resp = EmptyResponse
        /\ ~count.result.err.nil
        /\ count.result.err.StatusCode = 501
        /\ count.result.err.msg = "count tokens not supported for myprov"
        /\ count.upstreamAfter = count.upstreamBefore

C18_Witness ==
    /\ count.called
    /\ ~count.auth.nil
    /\ count.payload # ""
    /\ count.upstreamBefore > 0
    /\ count.result.err.StatusCode = 501

\* C19: the stream of ExecuteStream is finite and cannot be restarted: its
\* chunks reach the channel in order, the channel is closed exactly once, after
\* the last chunk, and the producing goroutine never blocks and ends on every
\* path, also when the reader never reads or gives the channel up.
IsPrefix(p, q) == Len(p) <= Len(q) /\ \A i \in 1..Len(p) : p[i] = q[i]

StreamSafe(st) ==
    /\ st.closes <= 1
    /\ st.closed <=> st.producer = "done"
    /\ st.closed => st.closes = 1
    /\ IsPrefix(st.received \o st.buf, StreamChunks)
    /\ st.producer = "done" => st.received \o st.buf = StreamChunks
    /\ st.consumer = "ended" => st.received = StreamChunks /\ st.closed
    /\ st.producer = "send" => CanSend(st)

C19_StreamEndsAndProducerTerminates ==
    /\ [](\A s \in StreamIds : StreamSafe(streams[s]))
    /\ \A s \in StreamIds :
           (streams[s].producer = "send") ~> (streams[s].producer = "done")

C19_Witness ==
    \E s \in StreamIds :
        /\ streams[s].producer = "done"
        /\ streams[s].consumer = "abandoned"
        /\ streams[s].received = <<>>
        /\ streams[s].buf = StreamChunks
        /\ streams[s].closes = 1

\* C20: the pools are safe for Get*/Put* calls of several tasks at once: when
\* every task puts back only an object it holds, no byte buffer, []any slice,
\* map, SSE chunk buffer or content coalescer is held by two tasks at the same
\* time, and none is held by a task while the pool can still hand it out.
C20_NoObjectHeldTwice ==
    /\ \A t1, t2 \in Tasks : t1 # t2 => held[t1] \cap held[t2] = {}
    /\ \A k \in PoolKinds, t \in Tasks : pooled[k] \cap held[t] = {}
    /\ \A k \in PoolKinds : \A o \in pooled[k] : objs[o].kind = k
    /\ \A k1, k2 \in PoolKinds : k1 # k2 => pooled[k1] \cap pooled[k2] = {}

C20_Witness ==
    /\ held["t1"] # {}
    /\ held["t2"] # {}
    /\ \E k \in PoolKinds : pooled[k] # {}

\* C21: the coalescer keeps no caller-owned buffer past the call: after Emit
\* returns, no content's parts slice lies in a backing array the caller passed.
C21_NoCallerBufferRetained ==
    \A i \in DOMAIN contents : contents[i].parts.arr \notin callerOwned

\* C22: a message without parts is dropped: such an Emit changes neither the
\* contents nor the last role, so the roles of the contents Build returns are
\* those of the messages that had parts, runs of one role merged into one
\* content, and no content Build returns has an empty parts list.
HasParts(m) == m.parts # <<>>
RolesOf(ms) == [i \in DOMAIN ms |-> ms[i].role]

RECURSIVE MergedRoles(_)
MergedRoles(rs) ==
    IF Len(rs) <= 1 THEN rs
    ELSE IF rs[1] = rs[2] THEN MergedRoles(Tail(rs))
    ELSE <<rs[1]>> \o MergedRoles(Tail(rs))

C22_EmptyPartsDropped ==
    /\ [](built.done =>
            /\ \A i \in DOMAIN built.list : built.list[i].parts # <<>>
            /\ RolesOf(built.list) = MergedRoles(RolesOf(SelectSeq(emitted, HasParts))))
    /\ [][(Len(emitted') = Len(emitted) + 1 /\ emitted'[Len(emitted')].parts = <<>>)
            => UNCHANGED <<arrays, contents, lastRole>>]_vars

C22_Witness ==
    /\ built.done
    /\ Len(emitted) = 3
    /\ emitted[1].role = "user" /\ emitted[1].parts # <<>>
    /\ emitted[2].role = "model" /\ emitted[2].parts = <<>>
    /\ emitted[3].role = "user" /\ emitted[3].parts # <<>>
    /\ Len(built.list) = 1
    /\ built.list[1].role = "user"

C24_CopilotValidatesBeforeSave ==
    \A f \in FlowIds :
        flowKind[f] = "copilot" =>
            /\ task[f].pc = "saving" \/ task[f].save # "none" \/ saved[f] > 0
                  => task[f].verify = "ok" /\ task[f].poll = "token"
            /\ task[f].verify = "error" =>
                  /\ Ended(f)
                  /\ task[f].save = "none"
                  /\ saved[f] = 0
                  /\ task[f].calls = <<"Fail">>
                  /\ task[f].found = "pending" => registry[f] \in {"failed", "absent"}

\* The validation of a Copilot token failed and the flow stands failed.
C24_Witness ==
    \E f \in FlowIds :
        /\ flowKind[f] = "copilot"
        /\ task[f].verify = "error"
        /\ registry[f] = "failed"
        /\ saved[f] = 0

\* C25: every Auth record a device flow saves has its ID equal to its
\* FileName, of the form <provider>-<account>.json with <provider> the
\* record's Provider, and two logins to the same account of a provider give
\* records with the same ID.
RecordName(provider, account) == <<provider, "-">> \o account \o <<".json">>

C25_RecordIdStable ==
    /\ \A s \in saves :
          /\ s.rec.ID = s.rec.FileName
          /\ s.rec.ID = RecordName(s.rec.Provider, s.rec.account)
    /\ \A s1, s2 \in saves :
          s1.rec.Provider = s2.rec.Provider /\ s1.who = s2.who
              => s1.rec.ID = s2.rec.ID

\* C27: the reverse lookup inverts the family table: no provider model id is
\* a member of two families, so GetCanonicalModelID gives, for the model id of
\* a member of family C, the key C in whatever order the map is iterated, and
\* so for the id ResolveModelFamily returns for C.
C27_ReverseLookupInvertsTable ==
    /\ \A c1, c2 \in DOMAIN ModelFamilies :
          c1 # c2 => \A i \in DOMAIN ModelFamilies[c1] :
                        ~HasModelID(ModelFamilies[c2], ModelFamilies[c1][i].ModelID)
    /\ reverse.called =>
          LET id == reverse.providerModelID
          IN  /\ \A c \in DOMAIN ModelFamilies :
                    HasModelID(ModelFamilies[c], id) => reverse.canonical = c
              /\ \A order \in IterationOrders :
                    GetCanonicalModelID(order, id) = reverse.canonical
              /\ \A c \in DOMAIN ModelFamilies, p \in ProviderNames :
                    LET r == ResolveModelFamily(c, <<p>>)
                    IN  r.found /\ r.modelID = id => reverse.canonical = c

\* The id of a member of the thinking Sonnet family, which differs from an id
\* of the plain Sonnet family by its suffix only, is traced back to its own
\* family though the iteration meets the plain family first.
C27_Witness ==
    /\ reverse.called
    /\ reverse.providerModelID = "claude-sonnet-4-5-thinking"
    /\ Head(reverse.order) = "claude-sonnet-4-5"
    /\ reverse.canonical = "claude-sonnet-4-5-thinking"
    /\ ResolveModelFamily("claude-sonnet-4-5-thinking", <<"claude">>).modelID
          = reverse.providerModelID

\* C28: OAuthStart fails without side effects: a body that does not bind, a
\* provider that is none of the supported names, and an auth URL that cannot
\* be built are answered 400 with status error, and such a request registers
\* no flow, starts no forwarder and spawns no task.
SupportedProviders == {"claude", "codex", "gemini", "antigravity", "qwen", "copilot"}

C28_StartFailsWithoutEffects ==
    response.op = "start" =>
        /\ lastCall.provider \notin SupportedProviders =>
              response.code = 400 /\ response.status = "error"
        /\ response.error \in {ErrInvalidBody, ErrUnsupported, ErrGenerateState, ErrPKCE} =>
              response.code = 400 /\ response.status = "error"
        /\ response.code = 400 =>
              /\ ~lastCall.changed
              /\ lastCall.steps = <<"respond">>
              /\ response.state = 0

\* The PKCE codes of a claude start could not be made while a flow was pending.
C28_Witness ==
    /\ response.op = "start"
    /\ lastCall.provider = "claude"
    /\ response.error = ErrPKCE
    /\ response.code = 400
    /\ \E f \in FlowIds : registry[f] = "pending"

\* C29: every flow is registered under a state id that no other flow in the
\* registry has: two flows that exist at the same time have different state
\* ids, and the registry's entry for the state of a flow is that flow's.
C29_StateIdsDistinct ==
    /\ \A f, g \in flows : f.n # g.n => f.state # g.state
    /\ \A f \in flows : [state |-> f.state, flow |-> f.n] \in entries

\* C30: a pooled object never carries state from its previous holder.  No object
\* in a pool has contents or a last role, so what GetBuffer, GetStringBuilder,
\* GetMap and GetSSEChunkBuf return is empty and what GetContentCoalescer
\* returns has no contents and an empty last role; what GetAnySlice and
\* GetStringSlice return has length 0 and a capacity of at least the hint.
Clean(obj) == obj.len = 0 /\ obj.lastRole = ""

C30_PooledObjectsCarryNoState ==
    /\ [](\A k \in PoolKinds : \A o \in pooled[k] : Clean(objs[o]))
    /\ [][\A t \in Tasks :
            /\ (GetBuffer(t) \/ GetStringBuilder(t) \/ GetMap(t) \/ GetSSEChunkBuf(t)
                  \/ \E capacity \in CapHints : GetContentCoalescer(t, capacity))
                 => \A o \in held'[t] \ held[t] : Clean(objs'[o])
            /\ \A capHint \in CapHints :
                 (GetAnySlice(t, capHint) \/ GetStringSlice(t, capHint))
                   => \A o \in held'[t] \ held[t] :
                        Clean(objs'[o]) /\ objs'[o].cap >= capHint]_vars

\* A task holds, empty, the buffer of a 600-byte chunk: BuildSSEChunk made it and
\* filled it, PutSSEChunkBuf put it back, GetSSEChunkBuf handed it out again.
C30_Witness ==
    \E o \in held["t1"] :
        /\ objs[o].kind = "sseChunk"
        /\ objs[o].cap = 600
        /\ Clean(objs[o])

\* C26: BuildSSEChunk returns exactly "data: " + jsonData + "\n\n", of length
\* len(jsonData) + 8, and BuildSSEEvent exactly "event: " + eventType +
\* "\ndata: " + jsonData + "\n\n", for every input, payloads larger than the
\* pooled buffer's capacity included; neither changes its input.
C26_SSEChunkBytesExact ==
    /\ sse.call.fn = "BuildSSEChunk" =>
         /\ sse.call.out.bytes =
              <<100, 97, 116, 97, 58, 32>> \o sse.call.jsonData \o <<10, 10>>
         /\ Len(sse.call.out.bytes) = Len(sse.call.jsonData) + 8
    /\ sse.call.fn = "BuildSSEEvent" =>
         sse.call.out.bytes =
           <<101, 118, 101, 110, 116, 58, 32>> \o sse.call.eventType
             \o <<10, 100, 97, 116, 97, 58, 32>> \o sse.call.jsonData \o <<10, 10>>
    /\ sse.call.fn # "none" =>
         /\ sse.call.jsonDataAfter = sse.call.jsonData
         /\ sse.call.eventTypeAfter = sse.call.eventType
         /\ Len(sse.call.out.bytes) <= sse.call.out.cap

\* A chunk of more JSON than the buffer the pool handed out can hold.
C26_Witness ==
    /\ sse.call.fn = "BuildSSEChunk"
    /\ Len(sse.call.jsonData) = MaxJSONLen
    /\ sse.call.pooledCap < Len(sse.call.jsonData)
    /\ sse.call.out.cap > sse.call.pooledCap

\* C31: every buffer in the SSE chunk pool has a capacity of 512 to 4096 bytes:
\* PutSSEChunkBuf does not pool a buffer whose capacity is below 512 or above
\* 4096, so the large buffer BuildSSEChunk or BuildSSEEvent makes for an
\* oversized payload never stays in the pool.
C31_SSEPoolCapacityBounded ==
    /\ [](\A o \in pooled["sseChunk"] : objs[o].cap >= 512 /\ objs[o].cap <= 4096)
    /\ [][\A t \in Tasks, o \in ObjectIds :
            (PutSSEChunkBuf(t, o) /\ (objs[o].cap < 512 \/ objs[o].cap > 4096))
              => pooled' = pooled /\ objs'[o] = NoObject]_vars

\* The pool holds the 600-byte buffer BuildSSEChunk made for a chunk that
\* outgrew 512 bytes, while the task holds the 8192-byte buffer of an oversized
\* chunk.
C31_Witness ==
    /\ \E o \in pooled["sseChunk"] : objs[o].cap = 600
    /\ \E o \in held["t1"] : objs[o].kind = "sseChunk" /\ objs[o].cap = 8192

====
